---------------------------- MODULE Spec2Model ----------------------------
(***************************************************************************)
(* Sample-identifier reconciliation of seqr's add_vcf management command:  *)
(* compute_edit_distance, _match_vcf_id_to_sample_id and Command.handle    *)
(* (src/seqr/management/commands/add_vcf.py), modelled against the record  *)
(* store (Family, Individual, Sample, Dataset and the dataset-sample       *)
(* links) the command reads and writes.                                    *)
(*                                                                         *)
(* Identifiers are Python strings; they are modelled as sequences of       *)
(* one-character strings so that they can be indexed and measured.         *)
(***************************************************************************)
EXTENDS Integers, Sequences, FiniteSets, TLC

VARIABLES
    \* ---- one call of compute_edit_distance(source, target)
    source,         \* first argument
    target,         \* second argument
    ed_pc,          \* "called" | "returned" | "idle"
    ed_result,      \* the value returned (None before the return)
    \* ---- the record store
    individuals,    \* Individual rows
    samples,        \* Sample rows
    \* ---- one call of _match_vcf_id_to_sample_id: arguments
    vcf_sample_ids,
    project,
    sample_type,
    validate_only,
    max_edit_distance,
    \* ---- its position and local variables
    pc,             \* "idle" | "step1" | "step2" | "step3" | "fuzzy"
                    \* | "stats" | "returned" | "raised"
    vcf_sample_id_to_sample_record,
    individual,     \* loop variable of line 166, read again by lines 192-204
    individual_ids_without_matching_sample_record,
    current_lowest_edit_distance_individual,    \* bound by line 192 only
    fuzzy_todo,     \* ids the loop of line 184 has still to visit
    exception,      \* the exception that ended the call, or None
    log,            \* messages given to logger.info
    \* ---- history of the call, for the properties
    created,        \* rows written by Sample.objects.create in this call
    fuzzy_visited,  \* ids the loop of line 184 has visited
    \* ---- the rest of the record store
    families,       \* Family rows
    datasets,       \* Dataset rows
    links,          \* rows of Dataset.samples (many-to-many)
    \* ---- one invocation of the command (Command.handle)
    vcf_path,
    handle_vcf_sample_ids,  \* vcf_sample_ids of handle: line 61, then line 80
    h_pc,           \* "idle" | "matching" | "prompt" | "link" | "done"
                    \* | "raised"
    \* ---- history of the invocations, for the properties
    prompts,        \* times ask_yes_no_question was called in this invocation
    responded_yes,  \* the answer of line 93: "unasked" | "yes" | "no"
    load_calls,     \* times _load_dataset was called in this invocation
    new_links,      \* links this invocation added that were not there
    linked_by,      \* every link ever added, with the project it was added for
    invocations,    \* invocations that have ended
    at_start,       \* the record store when this invocation began
    \* ---- a second call of _match_vcf_id_to_sample_id after a first
    first_run,      \* what the first call was given, returned and left
    \* ---- two invocations of the command running at the same time, each
    \* with its own local variables
    c_pc,           \* where each invocation is
    c_mapping,      \* vcf_sample_id_to_sample_record of each
    c_ids,          \* vcf_sample_ids of each handle: line 61, then line 80
    c_dataset,      \* id of the `dataset` of lines 103-114 of each, 0: none
    c_created,      \* the Sample rows each has created
    \* ---- the IgvSample table (alignment and coverage files of individuals)
    igv_samples,
    \* ---- one invocation of check_bam_cram_paths
    cb_pc,          \* "idle" | "loop" | "done"
    cb_args,        \* the project names given, none: every project
    cb_dry_run,     \* --dry-run
    cb_todo,        \* the samples the loop of line 34 has yet to visit
    cb_missing,     \* missing_counter: files not found, by project name
    cb_at_start,    \* the IgvSample table when the invocation began
    \* ---- one invocation of upload_es_index
    es_pc,          \* "idle" | "add" | "update" | "done" | "raised"
    es_options,     \* --project, --index and --user
    es_response,    \* status of the response add_variants_dataset_via_command
                    \* returned, 0: it has returned none
    es_activated,   \* sample ids match_and_update_samples has activated
    es_cache_reset, \* reset_cached_search_results was called
    es_saved_variants_updated,  \* update_project_saved_variant_json was called
    es_printed,     \* what handle has printed
    \* ---- invocations of upload_bams_file
    ub_manifest,    \* the rows parse_file yields for the file given
    ub_runs,        \* invocations that have ended
    ub_writes,      \* the IgvSample creates and updates of the last invocation
    ub_printed,     \* what the last invocation printed
    ub_at_start     \* the IgvSample table when the last invocation began

ed_vars == <<source, target, ed_pc, ed_result>>

store_vars == <<individuals, samples>>

arg_vars == <<vcf_sample_ids, project, sample_type, validate_only,
              max_edit_distance>>

local_vars == <<pc, vcf_sample_id_to_sample_record, individual,
                individual_ids_without_matching_sample_record,
                current_lowest_edit_distance_individual, fuzzy_todo,
                exception, log, created, fuzzy_visited>>

handle_vars == <<families, datasets, links, vcf_path, handle_vcf_sample_ids,
                 h_pc, prompts, responded_yes, load_calls, new_links,
                 linked_by, invocations, at_start>>

\* the state of the other commands and harnesses
conc_vars == <<c_pc, c_mapping, c_ids, c_dataset, c_created>>

check_vars == <<cb_pc, cb_args, cb_dry_run, cb_todo, cb_missing, cb_at_start>>

\* the variables of the commands other than add_vcf
igv_vars == <<igv_samples, check_vars>>

es_vars == <<es_pc, es_options, es_response, es_activated, es_cache_reset,
             es_saved_variants_updated, es_printed>>

bams_vars == <<ub_manifest, ub_runs, ub_writes, ub_printed, ub_at_start>>

cmd_vars == <<first_run, conc_vars, igv_vars, es_vars, bams_vars>>

vars == <<ed_vars, store_vars, arg_vars, local_vars, handle_vars, cmd_vars>>

None == "None"

Min(x, y) == IF x <= y THEN x ELSE y

-----------------------------------------------------------------------------
(* Bounds of the edit-distance inputs *)

\* characters the bounded identifiers are built from
Alphabet == {"a", "b", "c"}

\* longest identifier given to compute_edit_distance
MaxLen == 5

\* all strings over Alphabet of length n
RECURSIVE StringsOfLen(_)
StringsOfLen(n) ==
    IF n = 0 THEN {<<>>}
    ELSE {Append(s, ch) : s \in StringsOfLen(n - 1), ch \in Alphabet}

Strings == UNION {StringsOfLen(n) : n \in 0..MaxLen}

-----------------------------------------------------------------------------
(* compute_edit_distance, add_vcf.py:245-282 *)

\* (mutation of SubstitutionCost: a matching character costs 1 too)
SubstitutionCost_always_one(t, s) == 1

\* `target != s` (line 273): elementwise comparison, True counts as 1
SubstitutionCost(t, s) == IF t # s THEN 1 ELSE 0

\* np.arange(target.size + 1) (line 263): the row 0, 1, ..., size; index j of
\* the numpy row is index j + 1 here
InitialRow(size) == [j \in 1..(size + 1) |-> j - 1]

\* a numpy array of n integers: a sequence, held as computed values
Row(f) == SubSeq(f, 1, Len(f))

\* line 266: current_row = previous_row + 1
Inserted(previous_row) ==
    Row([j \in 1..Len(previous_row) |-> previous_row[j] + 1])

\* lines 271-273: current_row[1:] = np.minimum(current_row[1:],
\*                    np.add(previous_row[:-1], target != s))
Substituted(previous_row, current_row, tgt, s) ==
    Row([j \in 1..Len(current_row) |->
        IF j = 1 THEN current_row[1]
        ELSE Min(current_row[j],
                 previous_row[j - 1] + SubstitutionCost(tgt[j - 1], s))])

\* lines 276-278: current_row[1:] = np.minimum(current_row[1:],
\*                    current_row[0:-1] + 1)
\* numpy builds the right-hand side from current_row as it is before the
\* assignment, so each entry sees its left neighbour's value of line 273.
Deleted(current_row) ==
    Row([j \in 1..Len(current_row) |->
        IF j = 1 THEN current_row[1]
        ELSE Min(current_row[j], current_row[j - 1] + 1)])

\* one pass of the loop body (lines 264-280) for source character s
NextRow(previous_row, tgt, s) ==
    Deleted(Substituted(previous_row, Inserted(previous_row), tgt, s))

\* the loop `for s in source` (line 264), from the i-th character on
RECURSIVE SweepRows(_, _, _, _)
SweepRows(previous_row, src, tgt, i) ==
    IF i > Len(src) THEN previous_row
    ELSE SweepRows(NextRow(previous_row, tgt, src[i]), src, tgt, i + 1)

RECURSIVE compute_edit_distance(_, _)
compute_edit_distance(src, tgt) ==
    IF Len(src) < Len(tgt) THEN compute_edit_distance(tgt, src)   \* 248-249
    ELSE IF Len(tgt) = 0 THEN Len(src)                            \* 252-253
    ELSE LET last_row == SweepRows(InitialRow(Len(tgt)), src, tgt, 1)
         IN last_row[Len(last_row)]                               \* 282

-----------------------------------------------------------------------------
(* The record store: Individual and Sample rows (seqr.models, read and     *)
(* written by add_vcf.py through the Django ORM)                           *)

S1 == <<"S", "1">>
S2 == <<"S", "2">>
S9 == <<"S", "9">>
S1x == <<"S", "1", "x">>

\* identifiers that occur as VCF sample ids and as individual ids
Ids == {S1, S2, S9, S1x}

\* sample ids of the rows the store may hold before the call
SeedSampleIds == {S1, S1x}

Projects == {"P1", "P2"}

SampleTypes == {"WES", "WGS"}

\* most Sample rows in the store before the call
MaxSeedSamples == 1

\* most sample ids in the header of the VCF
MaxVcfIds == 2

\* largest --max-edit-distance-for-id-match given
MaxEditDistance == 2

\* the Individual rows a store may hold: guid, individual_id and the
\* project of the individual's family
IndividualUniverse ==
    { [guid |-> "I1", individual_id |-> S1, project |-> "P1"],
      [guid |-> "I2", individual_id |-> S2, project |-> "P1"],
      [guid |-> "I3", individual_id |-> S9, project |-> "P1"],
      [guid |-> "I4", individual_id |-> S1, project |-> "P2"] }

\* individual_id is project-scoped: no two individuals of one project
\* share it
IndividualIdsUniqueInProject(inds) ==
    \A i, j \in inds :
        (i.project = j.project /\ i.individual_id = j.individual_id) => i = j

\* the value of a name Python has not bound yet
NoIndividual == [guid |-> "unbound", individual_id |-> <<>>, project |-> "unbound"]

\* the string "placeholder" of line 172, held where Sample rows are held
Placeholder == [sample_id |-> <<>>, sample_type |-> "placeholder", individual |-> "none"]

\* sample.individual
IndividualOf(sample) == CHOOSE i \in individuals : i.guid = sample.individual

\* (mutation of all_individuals: the project filter is dropped)
all_individuals_any_project == individuals

\* Individual.objects.filter(family__project=project), line 164
all_individuals == {i \in individuals : i.project = project}

\* (mutation of SamplesOfThisType: the sample_type filter is dropped)
SamplesOfThisType_any_type ==
    {s \in samples : IndividualOf(s).project = project}

\* (mutation of SamplesOfThisType: the project filter is dropped)
SamplesOfThisType_any_project ==
    {s \in samples : s.sample_type = sample_type}

\* Sample.objects.filter(individual__family__project=project,
\*                       sample_type=sample_type), lines 153-155
SamplesOfThisType ==
    {s \in samples : IndividualOf(s).project = project /\ s.sample_type = sample_type}

\* (mutation of NewSample: the sample type is fixed instead of passed on)
NewSample_fixed_type(id, ind) ==
    [sample_id |-> id, sample_type |-> "WES", individual |-> ind.guid]

\* the row Sample.objects.create(sample_id=..., sample_type=sample_type,
\* individual=...) writes, lines 174 and 201
NewSample(id, ind) ==
    [sample_id |-> id, sample_type |-> sample_type, individual |-> ind.guid]

\* (mutation of SampleRowsAfterCreate: the table is replaced by the new rows)
SampleRowsAfterCreate_replacing(rows) == rows

\* the Sample table after Sample.objects.create has inserted rows (lines 174
\* and 201): an INSERT, every row there before stays as it is
SampleRowsAfterCreate(rows) == samples \cup rows

\* dict update: the entries of g replace and extend those of f
Merge(f, g) ==
    [x \in (DOMAIN f) \cup (DOMAIN g) |-> IF x \in DOMAIN g THEN g[x] ELSE f[x]]

EmptyDict == [x \in {} |-> Placeholder]

\* (mutation of remaining_vcf_sample_ids: the matched ids are not taken out)
remaining_vcf_sample_ids_all == vcf_sample_ids

\* vcf_sample_ids_set - set(vcf_sample_id_to_sample_record.keys()),
\* lines 163, 178 and 216
remaining_vcf_sample_ids == vcf_sample_ids \ DOMAIN vcf_sample_id_to_sample_record

\* one logger.info call
Message(msg, id, ids, n) ==
    [msg |-> msg, vcf_sample_id |-> id, individual_ids |-> ids, n |-> n]

\* every order in which Python may iterate over the set S
RECURSIVE Orders(_)
Orders(S) ==
    IF S = {} THEN {<<>>}
    ELSE UNION {{<<x>> \o rest : rest \in Orders(S \ {x})} : x \in S}

-----------------------------------------------------------------------------
(* _match_vcf_id_to_sample_id, add_vcf.py:143-226 *)

\* lines 143-149: the call; the list of ids becomes a set
Call(ids, proj, stype, vonly, med) ==
    /\ pc = "idle"
    /\ vcf_sample_ids' = ids
    /\ project' = proj
    /\ sample_type' = stype
    /\ validate_only' = vonly
    /\ max_edit_distance' = med
    /\ vcf_sample_id_to_sample_record' = EmptyDict
    /\ log' = {Message("sample IDs found in VCF", <<>>, <<>>, Cardinality(ids))}
    /\ pc' = "step1"
    /\ UNCHANGED <<ed_vars, store_vars, individual,
                   individual_ids_without_matching_sample_record,
                   current_lowest_edit_distance_individual, fuzzy_todo,
                   exception, created, fuzzy_visited>>

\* lines 151-160: existing samples of this type whose sample id is a vcf id.
\* existing_samples_of_this_type is a dict keyed by sample_id: of several
\* rows with one sample_id it keeps the one the query yields last.
Step1 ==
    /\ pc = "step1"
    /\ LET matched == {id \in vcf_sample_ids :
                          \E s \in SamplesOfThisType : s.sample_id = id}
       IN \E existing_samples_of_this_type \in [matched -> SamplesOfThisType] :
            /\ \A id \in matched :
                   existing_samples_of_this_type[id].sample_id = id
            /\ vcf_sample_id_to_sample_record' = existing_samples_of_this_type
            /\ log' = log \cup
                   {Message("exactly matched existing sample id", id, <<>>, 0) :
                        id \in matched}
    /\ pc' = "step2"
    /\ UNCHANGED <<ed_vars, store_vars, arg_vars, handle_vars, cmd_vars, individual,
                   individual_ids_without_matching_sample_record,
                   current_lowest_edit_distance_individual, fuzzy_todo,
                   exception, created, fuzzy_visited>>

\* lines 162-175: individuals whose individual id is a remaining vcf id.
\* The loop leaves `individual` bound to the row the query yields last.
Step2 ==
    /\ pc = "step2"
    /\ IF remaining_vcf_sample_ids = {} \/ all_individuals = {}
       THEN UNCHANGED <<samples, vcf_sample_id_to_sample_record, individual,
                        log, created>>
       ELSE LET hits == {i \in all_individuals :
                            i.individual_id \in remaining_vcf_sample_ids}
                hit_ids == {i.individual_id : i \in hits}
            IN \E last \in all_individuals, kept \in [hit_ids -> hits] :
                 /\ \A id \in hit_ids : kept[id].individual_id = id
                 /\ individual' = last
                 /\ log' = log \cup
                        {Message("individual id exactly matched the VCF sample id",
                                 id, <<>>, 0) : id \in hit_ids}
                 /\ IF validate_only
                    THEN /\ vcf_sample_id_to_sample_record' =
                                Merge(vcf_sample_id_to_sample_record,
                                      [id \in hit_ids |-> Placeholder])
                         /\ UNCHANGED <<samples, created>>
                    ELSE /\ samples' = SampleRowsAfterCreate(
                                {NewSample(i.individual_id, i) : i \in hits})
                         /\ created' = created \cup
                                {NewSample(i.individual_id, i) : i \in hits}
                         /\ vcf_sample_id_to_sample_record' =
                                Merge(vcf_sample_id_to_sample_record,
                                      [id \in hit_ids |-> NewSample(id, kept[id])])
    /\ pc' = "step3"
    /\ UNCHANGED <<ed_vars, individuals, arg_vars, handle_vars, cmd_vars,
                   individual_ids_without_matching_sample_record,
                   current_lowest_edit_distance_individual, fuzzy_todo,
                   exception, fuzzy_visited>>

\* lines 177-183 and 210-211: the pool of individual ids for the fuzzy stage.
\* Line 180 reads .individual of every value of the dict; the value stored
\* under validate_only (line 172) is a str, which has no such attribute.
Step3 ==
    /\ pc = "step3"
    /\ IF remaining_vcf_sample_ids = {}
       THEN /\ individual_ids_without_matching_sample_record' = {}
            /\ pc' = "stats"
            /\ UNCHANGED <<fuzzy_todo, exception>>
       ELSE IF \E id \in DOMAIN vcf_sample_id_to_sample_record :
                   vcf_sample_id_to_sample_record[id] = Placeholder
       THEN /\ exception' = "AttributeError"
            /\ pc' = "raised"
            /\ UNCHANGED <<individual_ids_without_matching_sample_record,
                           fuzzy_todo>>
       ELSE LET individual_ids_with_matching_sample_record ==
                    {IndividualOf(vcf_sample_id_to_sample_record[id]).individual_id :
                         id \in DOMAIN vcf_sample_id_to_sample_record}
                pool == {i.individual_id : i \in all_individuals}
                            \ individual_ids_with_matching_sample_record
            IN /\ individual_ids_without_matching_sample_record' = pool
               /\ IF max_edit_distance > 0 /\ pool # {}
                  THEN /\ pc' = "fuzzy"
                       /\ fuzzy_todo' = remaining_vcf_sample_ids
                  ELSE /\ pc' = "stats"
                       /\ UNCHANGED fuzzy_todo
               /\ UNCHANGED exception
    /\ UNCHANGED <<ed_vars, store_vars, arg_vars, handle_vars, cmd_vars,
                   vcf_sample_id_to_sample_record, individual,
                   current_lowest_edit_distance_individual, log, created,
                   fuzzy_visited>>

\* The inner loop, lines 186-194, over the pool in the given order.
\* loop.lowest is current_lowest_edit_distance, loop.plural is
\* current_lowest_edit_distance_individuals (line 187, never assigned again),
\* loop.singular is current_lowest_edit_distance_individual (lines 192, 194),
\* a name that is unbound until line 192 has run once in this call.
\* (mutation of InnerLoop: lines 192 and 194 write the list that lines 196
\* and 206 read, so that the pass binds the stale `individual` of line 166)
RECURSIVE InnerLoop_writes_plural(_, _, _, _)
InnerLoop_writes_plural(loop, order, k, vcf_sample_id) ==
    IF k > Len(order) THEN loop
    ELSE LET n == compute_edit_distance(vcf_sample_id, order[k])
             after ==
                 IF n < loop.lowest
                 THEN [loop EXCEPT !.lowest = n, !.plural = <<individual>>]
                 ELSE IF n = loop.lowest
                 THEN [loop EXCEPT !.plural = Append(@, individual)]
                 ELSE loop
         IN InnerLoop_writes_plural(after, order, k + 1, vcf_sample_id)

RECURSIVE InnerLoop(_, _, _, _)
InnerLoop(loop, order, k, vcf_sample_id) ==
    IF k > Len(order) \/ loop.raised # None THEN loop
    ELSE LET n == compute_edit_distance(vcf_sample_id, order[k])   \* line 189
             after ==
                 IF n < loop.lowest                                 \* line 190
                 THEN IF individual = NoIndividual
                      THEN [loop EXCEPT !.raised = "UnboundLocalError"]
                      ELSE [loop EXCEPT !.lowest = n,
                                        !.bound = TRUE,
                                        !.singular = <<individual>>]
                 ELSE IF n = loop.lowest                            \* line 193
                 THEN IF ~loop.bound \/ individual = NoIndividual
                      THEN [loop EXCEPT !.raised = "UnboundLocalError"]
                      ELSE [loop EXCEPT !.singular = Append(@, individual)]
                 ELSE loop
         IN InnerLoop(after, order, k + 1, vcf_sample_id)

\* lines 184-208: one pass of the outer loop, for one remaining vcf id
FuzzyMatch(vcf_sample_id, order) ==
    /\ pc = "fuzzy"
    /\ vcf_sample_id \in fuzzy_todo
    /\ order \in Orders(individual_ids_without_matching_sample_record)
    /\ fuzzy_visited' = fuzzy_visited \cup {vcf_sample_id}
    /\ fuzzy_todo' = fuzzy_todo \ {vcf_sample_id}
    /\ LET loop == InnerLoop([lowest |-> max_edit_distance,        \* line 186
                              plural |-> <<>>,                      \* line 187
                              bound |-> current_lowest_edit_distance_individual.bound,
                              singular |-> current_lowest_edit_distance_individual.list,
                              raised |-> None],
                             order, 1, vcf_sample_id)
           new_sample_record == NewSample(vcf_sample_id, individual)
           continue == IF fuzzy_todo \ {vcf_sample_id} = {} THEN "stats" ELSE "fuzzy"
       IN /\ current_lowest_edit_distance_individual' =
                 [bound |-> loop.bound, list |-> loop.singular]
          /\ IF loop.raised # None
             THEN /\ exception' = loop.raised
                  /\ pc' = "raised"
                  /\ UNCHANGED <<samples, created, log,
                                 vcf_sample_id_to_sample_record,
                                 individual_ids_without_matching_sample_record>>
             ELSE IF Len(loop.plural) = 1                           \* line 196
             THEN /\ log' = log \cup
                         {Message("individual id matched VCF sample id",
                                  vcf_sample_id, <<individual.individual_id>>,
                                  loop.lowest)}
                  /\ IF validate_only
                     THEN UNCHANGED <<samples, created,
                                      vcf_sample_id_to_sample_record>>
                     ELSE /\ samples' = SampleRowsAfterCreate({new_sample_record})
                          /\ created' = created \cup {new_sample_record}
                          /\ vcf_sample_id_to_sample_record' =
                                 Merge(vcf_sample_id_to_sample_record,
                                       [id \in {vcf_sample_id} |-> new_sample_record])
                  \* line 204: set.remove raises KeyError for a missing element
                  /\ IF individual.individual_id
                            \in individual_ids_without_matching_sample_record
                     THEN /\ individual_ids_without_matching_sample_record' =
                                 individual_ids_without_matching_sample_record
                                     \ {individual.individual_id}
                          /\ pc' = continue
                          /\ UNCHANGED exception
                     ELSE /\ exception' = "KeyError"
                          /\ pc' = "raised"
                          /\ UNCHANGED individual_ids_without_matching_sample_record
             ELSE IF Len(loop.plural) >= 1                          \* line 206
             THEN /\ log' = log \cup
                         {Message("matched multiple individual ids", vcf_sample_id,
                                  [k \in 1..Len(loop.plural) |->
                                       loop.plural[k].individual_id], 0)}
                  /\ pc' = continue
                  /\ UNCHANGED <<samples, created, exception,
                                 vcf_sample_id_to_sample_record,
                                 individual_ids_without_matching_sample_record>>
             ELSE /\ pc' = continue
                  /\ UNCHANGED <<samples, created, exception, log,
                                 vcf_sample_id_to_sample_record,
                                 individual_ids_without_matching_sample_record>>
    /\ UNCHANGED <<ed_vars, individuals, arg_vars, handle_vars, cmd_vars, individual>>

\* lines 213-226: the two counts, and the return of the dict
Return ==
    /\ pc = "stats"
    /\ log' = log
           \cup (IF vcf_sample_id_to_sample_record # EmptyDict
                 THEN {Message("of these sample IDs matched existing IDs", <<>>, <<>>,
                               Cardinality(DOMAIN vcf_sample_id_to_sample_record))}
                 ELSE {})
           \cup (IF remaining_vcf_sample_ids # {}
                 THEN {Message("of these sample IDs didn't match any existing IDs",
                               <<>>, <<>>, Cardinality(remaining_vcf_sample_ids))}
                 ELSE {})
    /\ pc' = "returned"
    /\ UNCHANGED <<ed_vars, store_vars, arg_vars, handle_vars, cmd_vars,
                   vcf_sample_id_to_sample_record, individual,
                   individual_ids_without_matching_sample_record,
                   current_lowest_edit_distance_individual, fuzzy_todo,
                   exception, created, fuzzy_visited>>

-----------------------------------------------------------------------------
(* One call of compute_edit_distance on bounded inputs *)

\* no call of _match_vcf_id_to_sample_id is under way
MatchIdle ==
    /\ vcf_sample_ids = {}
    /\ project = "P1"
    /\ sample_type = "WES"
    /\ validate_only = FALSE
    /\ max_edit_distance = 0
    /\ pc = "idle"
    /\ vcf_sample_id_to_sample_record = EmptyDict
    /\ individual = NoIndividual
    /\ individual_ids_without_matching_sample_record = {}
    /\ current_lowest_edit_distance_individual = [bound |-> FALSE, list |-> <<>>]
    /\ fuzzy_todo = {}
    /\ exception = None
    /\ log = {}
    /\ created = {}
    /\ fuzzy_visited = {}

\* the store as it was when no invocation is under way: nothing recorded
NoSnapshot ==
    [individuals |-> {}, samples |-> {}, families |-> {}, datasets |-> {},
     links |-> {}]

\* no invocation of the command is under way
HandleIdle ==
    /\ vcf_path = None
    /\ handle_vcf_sample_ids = {}
    /\ h_pc = "idle"
    /\ prompts = 0
    /\ responded_yes = "unasked"
    /\ load_calls = 0
    /\ new_links = {}
    /\ at_start = NoSnapshot

\* no first call is on record
NoRun == [ran |-> FALSE, args |-> <<>>, result |-> EmptyDict, samples |-> {}]

\* no IgvSample is in the store and no command on them is under way
IgvIdle ==
    /\ igv_samples = {}
    /\ cb_pc = "idle"
    /\ cb_args = {}
    /\ cb_dry_run = FALSE
    /\ cb_todo = {}
    /\ cb_missing = [p \in Projects |-> 0]
    /\ cb_at_start = {}

\* the invocations that may run at the same time
Procs == {1, 2}

\* no invocation of upload_es_index is under way
EsIdle ==
    /\ es_pc = "idle"
    /\ es_options = [project |-> "P1", index |-> None, user |-> None]
    /\ es_response = 0
    /\ es_activated = {}
    /\ es_cache_reset = FALSE
    /\ es_saved_variants_updated = FALSE
    /\ es_printed = {}

\* upload_bams_file has not run
BamsIdle ==
    /\ ub_manifest = <<>>
    /\ ub_runs = 0
    /\ ub_writes = {}
    /\ ub_printed = {}
    /\ ub_at_start = {}

\* no two invocations are running at the same time
ConcIdle ==
    /\ c_pc = [p \in Procs |-> "idle"]
    /\ c_mapping = [p \in Procs |-> EmptyDict]
    /\ c_ids = [p \in Procs |-> {}]
    /\ c_dataset = [p \in Procs |-> 0]
    /\ c_created = [p \in Procs |-> {}]

\* the other commands and harnesses are not in use
CmdIdle ==
    /\ first_run = NoRun
    /\ ConcIdle
    /\ IgvIdle
    /\ EsIdle
    /\ BamsIdle

\* the families of the individuals a store holds at the start: one per
\* project that has individuals
SeedFamilies(inds) ==
    {[family_id |-> <<"F">>, project |-> p] : p \in {i.project : i \in inds}}

EdInit ==
    /\ source \in Strings
    /\ target \in Strings
    /\ ed_pc = "called"
    /\ ed_result = None
    /\ individuals = {}
    /\ samples = {}
    /\ families = {}
    /\ datasets = {}
    /\ links = {}
    /\ linked_by = {}
    /\ invocations = 0
    /\ MatchIdle
    /\ HandleIdle
    /\ CmdIdle

ComputeEditDistance ==
    /\ ed_pc = "called"
    /\ ed_result' = compute_edit_distance(source, target)
    /\ ed_pc' = "returned"
    /\ UNCHANGED <<source, target, store_vars, arg_vars, local_vars, handle_vars,
                   cmd_vars>>

EdNext == ComputeEditDistance

SpecEditDistance == EdInit /\ [][EdNext]_vars

-----------------------------------------------------------------------------
(* One call of _match_vcf_id_to_sample_id on a bounded store *)

\* the Sample rows a store over the individuals inds may hold before the call
SeedRows(inds) ==
    [sample_id : SeedSampleIds, sample_type : SampleTypes,
     individual : {i.guid : i \in inds}]

\* the subsets of S of at most n elements
RECURSIVE SubsetsUpTo(_, _)
SubsetsUpTo(S, n) ==
    IF n = 0 THEN {{}}
    ELSE LET smaller == SubsetsUpTo(S, n - 1)
         IN smaller \cup {s \cup {x} : s \in smaller, x \in S}

MatchInit ==
    /\ source = <<>>
    /\ target = <<>>
    /\ ed_pc = "idle"
    /\ ed_result = None
    /\ individuals \in SUBSET IndividualUniverse
    /\ IndividualIdsUniqueInProject(individuals)
    /\ samples \in SubsetsUpTo(SeedRows(individuals), MaxSeedSamples)
    /\ families = SeedFamilies(individuals)
    /\ datasets = {}
    /\ links = {}
    /\ linked_by = {}
    /\ invocations = 0
    /\ MatchIdle
    /\ HandleIdle
    /\ CmdIdle

\* a call with any bounded arguments
Invoke ==
    \E ids \in SubsetsUpTo(Ids, MaxVcfIds) \ {{}}, proj \in Projects,
       stype \in SampleTypes, vonly \in BOOLEAN, med \in 0..MaxEditDistance :
         /\ Call(ids, proj, stype, vonly, med)
         /\ UNCHANGED <<handle_vars, cmd_vars>>

\* the next pass of the loop of line 184: Python iterates over the set of
\* remaining ids, and over the pool, in an order the program does not fix
FuzzyStage ==
    \E vcf_sample_id \in fuzzy_todo,
       order \in Orders(individual_ids_without_matching_sample_record) :
         FuzzyMatch(vcf_sample_id, order)

MatchNext ==
    \/ Invoke
    \/ Step1
    \/ Step2
    \/ Step3
    \/ FuzzyStage
    \/ Return

SpecMatch == MatchInit /\ [][MatchNext]_vars

-----------------------------------------------------------------------------
(* Command.handle, add_vcf.py:39-120, and what it calls *)

\* Dataset.ANALYSIS_TYPE_VARIANT_CALLS, line 41
ANALYSIS_TYPE_VARIANT_CALLS == "VARIANTS"

\* the choices of --genome-build
GenomeBuilds == {"37", "38"}

\* project.genome_build_id of the projects of the store
GenomeBuildOf(project_guid) == "37"

\* values given as project_id: the projects of the store and an unknown guid
ProjectGuids == Projects \cup {"P0"}

\* the files a vcf_path may name: whether the file is there, and the sample
\* columns of its #CHROM header line (fields 9 and up); a path not listed
\* names no file
VcfFiles ==
    [path \in {"gs://seqr/a.vcf.gz", "gs://seqr/b.vcf.gz", "gs://seqr/x.vcf.gz",
               "gs://seqr/empty.vcf.gz", "/data/c.vcf"} |->
        IF path = "gs://seqr/a.vcf.gz" THEN {S1, S2}
        ELSE IF path = "gs://seqr/b.vcf.gz" THEN {S1, S9}
        ELSE IF path = "gs://seqr/x.vcf.gz" THEN {S1, S1x}
        ELSE IF path = "gs://seqr/empty.vcf.gz" THEN {}   \* no sample columns
        ELSE {S1}]

\* values given as vcf_path
VcfPaths == (DOMAIN VcfFiles) \cup {"", "gs://seqr/missing.vcf.gz", "/data/missing.vcf"}

\* path.startswith("gs://"): add_vcf.py line 127, check_bam_cram_paths.py
\* line 35
StartsWithGs(path) ==
    path \in {"gs://seqr/a.vcf.gz", "gs://seqr/b.vcf.gz", "gs://seqr/x.vcf.gz",
              "gs://seqr/empty.vcf.gz", "gs://seqr/missing.vcf.gz",
              "gs://bams/here.bam", "gs://bams/also.bam", "gs://bams/gone.bam",
              "gs://bams/here.cram", "gs://bams/here.txt"}

\* _validate_vcf, lines 123-139: the exception raised, or the sample ids of
\* the header.  For a path outside gs:// that names a file, header_content
\* is never assigned and line 136 raises UnboundLocalError.
\* The ids of a header are distinct, so the list of line 137 is given as a set.
_validate_vcf(path) ==
    IF path = ""
    THEN [raised |-> "CommandError", sample_ids |-> {}]               \* 124-125
    ELSE IF StartsWithGs(path)
    THEN IF path \notin DOMAIN VcfFiles
         THEN [raised |-> "ValueError", sample_ids |-> {}]            \* 128-129
         ELSE [raised |-> None, sample_ids |-> VcfFiles[path]]        \* 130-139
    ELSE IF path \notin DOMAIN VcfFiles
         THEN [raised |-> "ValueError", sample_ids |-> {}]            \* 132-133
         ELSE [raised |-> "UnboundLocalError", sample_ids |-> {}]     \* 136

\* the record store, as one value
Store ==
    [individuals |-> individuals, samples |-> samples, families |-> families,
     datasets |-> datasets, links |-> links]

\* Dataset.objects.filter(analysis_type=analysis_type,
\*     source_file_path=vcf_path,
\*     samples__individual__family__project=project), lines 74-77 and 104-107:
\* the datasets of that path that have a linked sample in the project
DatasetsFor(path, proj) ==
    {d \in datasets :
        /\ d.analysis_type = ANALYSIS_TYPE_VARIANT_CALLS
        /\ d.source_file_path = path
        /\ \E l \in links : /\ l.dataset = d.id
                            /\ IndividualOf(l.sample).project = proj}

\* (mutation of DatasetObjectsGet: the lookup finds nothing)
DatasetObjectsGet_finds_nothing(path, proj) ==
    [raised |-> "ObjectDoesNotExist", found |-> {}]

\* Dataset.objects.get(id__in=...), lines 73 and 103: the one dataset, or
\* ObjectDoesNotExist for none, or MultipleObjectsReturned for several
DatasetObjectsGet(path, proj) ==
    LET found == DatasetsFor(path, proj)
    IN IF found = {} THEN [raised |-> "ObjectDoesNotExist", found |-> {}]
       ELSE IF Cardinality(found) > 1
       THEN [raised |-> "MultipleObjectsReturned", found |-> {}]
       ELSE [raised |-> None, found |-> found]

\* the row Dataset.objects.create(analysis_type=..., source_file_path=...)
\* writes, lines 111-114; ids are given in sequence, is_loaded starts false
NewDataset(path) ==
    [id |-> Cardinality(datasets) + 1,
     analysis_type |-> ANALYSIS_TYPE_VARIANT_CALLS,
     source_file_path |-> path,
     is_loaded |-> FALSE]

\* [s.sample_id for s in dataset.samples.all()], line 81
SampleIdsOf(dataset) ==
    {l.sample.sample_id : l \in {k \in links : k.dataset = dataset.id}}

\* an identifier as text
RECURSIVE IdText(_)
IdText(id) == IF id = <<>> THEN "" ELSE Head(id) \o IdText(Tail(id))

\* the rows add_or_update_individuals_and_families(project,
\* [{'familyId': sample_id, 'individualId': sample_id}, ...]) leaves for one
\* sample id (lines 95-98): a Family and an Individual named after it
NewFamily(proj, id) == [family_id |-> id, project |-> proj]

NewIndividual(proj, id) ==
    [guid |-> "I-" \o proj \o "-" \o IdText(id), individual_id |-> id,
     project |-> proj]

\* (mutation of ReturnsAfterValidation: line 89 never returns)
ReturnsAfterValidation_never == FALSE

\* `if validate_only: return`, lines 89-90
ReturnsAfterValidation == validate_only

\* the test of line 82, with vcf_sample_ids as line 80 has just set it: the
\* keys of the mapping
AlreadyLoaded(dataset) ==
    /\ dataset.is_loaded
    /\ (DOMAIN vcf_sample_id_to_sample_record) \ SampleIdsOf(dataset) = {}

\* lines 39-69: the options, the project, the genome build, the header of
\* the VCF, and the call of _match_vcf_id_to_sample_id
HandleStart(project_guid, genome_build, path, stype, vonly, med) ==
    /\ h_pc = "idle"
    /\ LET header == _validate_vcf(path)
           raised ==
               IF project_guid \notin Projects THEN "CommandError"      \* 52-55
               ELSE IF GenomeBuildOf(project_guid) # genome_build
               THEN "CommandError"                                      \* 57-58
               ELSE header.raised                                       \* 61
       IN /\ at_start' = Store
          /\ IF raised # None
             THEN /\ exception' = raised
                  /\ h_pc' = "raised"
                  /\ UNCHANGED <<arg_vars, pc, vcf_sample_id_to_sample_record,
                                 log, vcf_path, handle_vcf_sample_ids>>
             ELSE /\ Call(header.sample_ids, project_guid, stype, vonly, med)
                  /\ vcf_path' = path
                  /\ handle_vcf_sample_ids' = header.sample_ids
                  /\ h_pc' = "matching"
    /\ UNCHANGED <<ed_vars, store_vars, individual,
                   individual_ids_without_matching_sample_record,
                   current_lowest_edit_distance_individual, fuzzy_todo,
                   created, fuzzy_visited, families, datasets, links, prompts,
                   responded_yes, load_calls, new_links, linked_by,
                   invocations, cmd_vars>>

\* lines 71-90: the Dataset of this VCF in this project, the shortcut for a
\* loaded dataset, and the return of a validate_only invocation
HandleLookup ==
    /\ h_pc = "matching"
    /\ pc = "returned"
    /\ LET got == DatasetObjectsGet(vcf_path, project)
       IN IF got.raised = "MultipleObjectsReturned"
          THEN /\ exception' = got.raised
               /\ h_pc' = "raised"
               /\ UNCHANGED <<handle_vcf_sample_ids, log>>
          ELSE IF got.raised = "ObjectDoesNotExist"                    \* 85-87
          THEN /\ h_pc' = IF ReturnsAfterValidation THEN "done" ELSE "prompt"
               /\ UNCHANGED <<handle_vcf_sample_ids, log, exception>>
          ELSE LET dataset == CHOOSE d \in got.found : TRUE
               IN /\ handle_vcf_sample_ids' =
                         DOMAIN vcf_sample_id_to_sample_record         \* 80
                  /\ IF AlreadyLoaded(dataset)                         \* 82-84
                     THEN /\ log' = log \cup
                                 {Message("samples in this VCF are already loaded",
                                          <<>>, <<>>,
                                          Cardinality(DOMAIN vcf_sample_id_to_sample_record))}
                          /\ h_pc' = "done"
                     ELSE /\ h_pc' = IF ReturnsAfterValidation THEN "done"
                                                               ELSE "prompt"
                          /\ UNCHANGED log
                  /\ UNCHANGED exception
    /\ UNCHANGED <<ed_vars, store_vars, arg_vars, pc,
                   vcf_sample_id_to_sample_record, individual,
                   individual_ids_without_matching_sample_record,
                   current_lowest_edit_distance_individual, fuzzy_todo,
                   created, fuzzy_visited, families, datasets, links, vcf_path,
                   prompts, responded_yes, load_calls, new_links, linked_by,
                   invocations, at_start, cmd_vars>>

\* (mutation of ExtraVcfSampleIds: every id of the VCF)
ExtraVcfSampleIds_every_id == handle_vcf_sample_ids

\* set(vcf_sample_ids) - set(vcf_sample_id_to_sample_record.keys()), line 97
ExtraVcfSampleIds ==
    handle_vcf_sample_ids \ DOMAIN vcf_sample_id_to_sample_record

\* lines 92-98: the question about the ids the matching left over, and the
\* families and individuals made for them on a yes
HandlePrompt ==
    /\ h_pc = "prompt"
    /\ IF Cardinality(DOMAIN vcf_sample_id_to_sample_record)
              < Cardinality(handle_vcf_sample_ids)                      \* 92
       THEN \E answer \in {"yes", "no"} :
              /\ prompts' = prompts + 1                                 \* 93
              /\ responded_yes' = answer
              /\ IF answer = "yes"                                      \* 94
                 THEN /\ families' = families \cup
                             {NewFamily(project, id) : id \in ExtraVcfSampleIds}
                      /\ individuals' = individuals \cup
                             {NewIndividual(project, id) : id \in ExtraVcfSampleIds}
                 ELSE UNCHANGED <<families, individuals>>
       ELSE UNCHANGED <<prompts, responded_yes, families, individuals>>
    /\ h_pc' = "link"
    /\ UNCHANGED <<ed_vars, samples, arg_vars, local_vars, datasets, links,
                   vcf_path, handle_vcf_sample_ids, load_calls, new_links,
                   linked_by, invocations, at_start, cmd_vars>>

\* lines 100-120: the Dataset is looked up again or created, every sample of
\* the mapping is added to it (adding a linked sample changes nothing), and
\* _load_dataset (lines 229-242, which only prints) is called
HandleLink ==
    /\ h_pc = "link"
    /\ IF vcf_sample_id_to_sample_record = EmptyDict                   \* 101
       THEN /\ h_pc' = "done"
            /\ UNCHANGED <<datasets, links, new_links, linked_by, load_calls,
                           exception, log>>
       ELSE LET got == DatasetObjectsGet(vcf_path, project)
            IN IF got.raised = "MultipleObjectsReturned"
               THEN /\ exception' = got.raised
                    /\ h_pc' = "raised"
                    /\ UNCHANGED <<datasets, links, new_links, linked_by,
                                   load_calls, log>>
               ELSE LET dataset == IF got.raised = None
                                   THEN CHOOSE d \in got.found : TRUE
                                   ELSE NewDataset(vcf_path)
                        added == {[dataset |-> dataset.id,
                                   sample |-> vcf_sample_id_to_sample_record[id]] :
                                      id \in DOMAIN vcf_sample_id_to_sample_record}
                    IN /\ datasets' = datasets \cup {dataset}
                       /\ log' = IF got.raised = None THEN log
                                 ELSE log \cup {Message("Created dataset",
                                                        <<>>, <<>>, dataset.id)}
                       /\ links' = links \cup added                    \* 116-117
                       /\ new_links' = added \ links
                       /\ linked_by' = linked_by \cup
                              {[dataset |-> l.dataset, sample |-> l.sample,
                                project |-> project] : l \in added}
                       /\ load_calls' = load_calls + 1                  \* 120
                       /\ h_pc' = "done"
                       /\ UNCHANGED exception
    /\ UNCHANGED <<ed_vars, store_vars, arg_vars, pc,
                   vcf_sample_id_to_sample_record, individual,
                   individual_ids_without_matching_sample_record,
                   current_lowest_edit_distance_individual, fuzzy_todo,
                   created, fuzzy_visited, families, vcf_path,
                   handle_vcf_sample_ids, prompts, responded_yes, invocations,
                   at_start, cmd_vars>>

\* the invocation has ended, by a return or by an exception that nothing
\* catches: the process exits and its local variables are gone
Exit ==
    /\ \/ h_pc \in {"done", "raised"}
       \/ h_pc = "matching" /\ pc = "raised"
    /\ invocations' = invocations + 1
    /\ vcf_sample_ids' = {}
    /\ project' = "P1"
    /\ sample_type' = "WES"
    /\ validate_only' = FALSE
    /\ max_edit_distance' = 0
    /\ pc' = "idle"
    /\ vcf_sample_id_to_sample_record' = EmptyDict
    /\ individual' = NoIndividual
    /\ individual_ids_without_matching_sample_record' = {}
    /\ current_lowest_edit_distance_individual' = [bound |-> FALSE, list |-> <<>>]
    /\ fuzzy_todo' = {}
    /\ exception' = None
    /\ log' = {}
    /\ created' = {}
    /\ fuzzy_visited' = {}
    /\ vcf_path' = None
    /\ handle_vcf_sample_ids' = {}
    /\ h_pc' = "idle"
    /\ prompts' = 0
    /\ responded_yes' = "unasked"
    /\ load_calls' = 0
    /\ new_links' = {}
    /\ at_start' = NoSnapshot
    /\ UNCHANGED <<ed_vars, store_vars, families, datasets, links, linked_by,
                   cmd_vars>>

\* the loading pipeline, outside this command, has loaded a dataset and
\* marks it: is_loaded becomes true
LoaderMarksLoaded ==
    /\ h_pc = "idle"
    /\ \E d \in datasets :
          /\ ~d.is_loaded
          /\ datasets' = (datasets \ {d}) \cup {[d EXCEPT !.is_loaded = TRUE]}
    /\ UNCHANGED <<ed_vars, store_vars, arg_vars, local_vars, families, links,
                   vcf_path, handle_vcf_sample_ids, h_pc, prompts, responded_yes,
                   load_calls, new_links, linked_by, invocations, at_start,
                   cmd_vars>>

-----------------------------------------------------------------------------
(* A sequence of invocations of the command on a bounded store *)

\* most invocations in a row
MaxInvocations == 2

\* the individuals the store holds before the first invocation
AddVcfSeedIndividuals ==
    { {},
      {i \in IndividualUniverse : i.guid \in {"I1", "I4"}},
      {i \in IndividualUniverse : i.guid \in {"I1", "I2", "I4"}} }

\* values given as --max-edit-distance-for-id-match in a sequence
AddVcfEditDistances == {0, MaxEditDistance}

AddVcfInit ==
    /\ source = <<>>
    /\ target = <<>>
    /\ ed_pc = "idle"
    /\ ed_result = None
    /\ individuals \in AddVcfSeedIndividuals
    /\ samples = {}
    /\ families = SeedFamilies(individuals)
    /\ datasets = {}
    /\ links = {}
    /\ linked_by = {}
    /\ invocations = 0
    /\ MatchIdle
    /\ HandleIdle
    /\ CmdIdle

\* an invocation with any bounded options
Start ==
    /\ invocations < MaxInvocations
    /\ \E project_guid \in ProjectGuids, genome_build \in GenomeBuilds,
          path \in VcfPaths, stype \in SampleTypes, vonly \in BOOLEAN,
          med \in AddVcfEditDistances :
            HandleStart(project_guid, genome_build, path, stype, vonly, med)

AddVcfNext ==
    \/ Start
    \/ Step1
    \/ Step2
    \/ Step3
    \/ FuzzyStage
    \/ Return
    \/ HandleLookup
    \/ HandlePrompt
    \/ HandleLink
    \/ Exit
    \/ LoaderMarksLoaded

SpecAddVcf == AddVcfInit /\ [][AddVcfNext]_vars

-----------------------------------------------------------------------------
(* The reference the edit-distance claims compare against: the classic     *)
(* Levenshtein recurrence, every cell taking its left neighbour's final    *)
(* value.  It is the contract's definition, not code of the repository.    *)

RECURSIVE LevenshteinCells(_, _, _, _)
LevenshteinCells(cells, previous_row, tgt, s) ==
    IF Len(cells) = Len(previous_row) THEN cells
    ELSE LET j == Len(cells) + 1
             cell == IF j = 1 THEN previous_row[1] + 1
                     ELSE Min(Min(previous_row[j] + 1, cells[j - 1] + 1),
                              previous_row[j - 1]
                                  + (IF tgt[j - 1] # s THEN 1 ELSE 0))
         IN LevenshteinCells(Append(cells, cell), previous_row, tgt, s)

RECURSIVE LevenshteinRows(_, _, _, _)
LevenshteinRows(previous_row, src, tgt, i) ==
    IF i > Len(src) THEN previous_row
    ELSE LevenshteinRows(LevenshteinCells(<<>>, previous_row, tgt, src[i]),
                         src, tgt, i + 1)

Levenshtein(src, tgt) ==
    LET first_row == Row([j \in 1..(Len(tgt) + 1) |-> j - 1])
        last_row == LevenshteinRows(first_row, src, tgt, 1)
    IN last_row[Len(last_row)]

\* C1: compute_edit_distance(a, b) is the Levenshtein distance of a and b
\* (insertion, deletion and substitution cost 1 each).
C1_EqualsLevenshtein ==
    ed_pc = "returned" => ed_result = Levenshtein(source, target)

\* C2: compute_edit_distance is symmetric: the value returned for (a, b) is
\* the value of compute_edit_distance(b, a), equal lengths included.
C2_Symmetric ==
    ed_pc = "returned" => ed_result = compute_edit_distance(target, source)

\* C3: compute_edit_distance(a, a) = 0 and
\* compute_edit_distance(a, "") = compute_edit_distance("", a) = len(a).
C3_IdentityAndEmpty ==
    ed_pc = "returned" =>
        /\ (source = target => ed_result = 0)
        /\ (target = <<>> => ed_result = Len(source))
        /\ (source = <<>> => ed_result = Len(target))

\* C3 witness: a call comparing a string of full length with itself returned
C3_Witness ==
    /\ ed_pc = "returned"
    /\ source = target
    /\ Len(source) = MaxLen
    /\ ed_result = 0

\* longest intermediate string tried in the triangle inequality
MaxMidLen == 3

TriangleMids == UNION {StringsOfLen(n) : n \in 0..MaxMidLen}

\* C4: triangle inequality: distance(a, c) <= distance(a, mid) + distance(mid, c),
\* stated here for a and c of equal length (the calls line 248 does not
\* swap) and every intermediate string of up to MaxMidLen characters.
C4_Triangle ==
    (ed_pc = "returned" /\ Len(source) = Len(target)) =>
        \A mid \in TriangleMids :
            ed_result <= compute_edit_distance(source, mid)
                             + compute_edit_distance(mid, target)

-----------------------------------------------------------------------------
(* Properties of _match_vcf_id_to_sample_id *)

\* the Sample rows the store held when the call began
PreExisting == samples \ created

\* the rows of PreExisting of the requested type in the project whose
\* sample_id is id
ExistingSamplesFor(id) ==
    {s \in PreExisting : /\ s.sample_id = id
                         /\ s.sample_type = sample_type
                         /\ IndividualOf(s).project = project}

\* the smallest edit distance from id to an individual id of pool
BestDistance(id, pool) ==
    CHOOSE d \in 0..(MaxLen + 1) :
        /\ \E p \in pool : compute_edit_distance(id, p) = d
        /\ \A p \in pool : compute_edit_distance(id, p) >= d

\* the individual ids of pool at that smallest distance
BestIds(id, pool) ==
    {p \in pool : compute_edit_distance(id, p) = BestDistance(id, pool)}

\* this step is the pass of the loop of line 184 for id
FuzzyPassFor(id) == pc = "fuzzy" /\ id \in fuzzy_todo /\ id \notin fuzzy_todo'

\* C5: in the fuzzy stage, an external id whose smallest distance to the
\* unclaimed pool is below max_edit_distance and is attained by exactly one
\* individual id is bound to that individual: the pass does not fail, the
\* id is a key of the mapping and, unless validate_only, a new Sample with
\* sample_id = the id, owned by that individual, has been created.
C5_UniqueMinimumBinds ==
    [][\A id \in Ids :
         LET pool == individual_ids_without_matching_sample_record
         IN (/\ FuzzyPassFor(id)
             /\ BestDistance(id, pool) < max_edit_distance
             /\ Cardinality(BestIds(id, pool)) = 1)
            => /\ pc' # "raised"
               /\ id \in DOMAIN vcf_sample_id_to_sample_record'
               /\ ~validate_only =>
                     \E s \in created' \ created, i \in all_individuals :
                        /\ i.individual_id \in BestIds(id, pool)
                        /\ s = [sample_id |-> id, sample_type |-> sample_type,
                                individual |-> i.guid]
                        /\ vcf_sample_id_to_sample_record'[id] = s]_vars

\* C6: in the fuzzy stage, an external id for which two or more unclaimed
\* individual ids tie at the smallest distance, below max_edit_distance, is
\* left out of the mapping, gets no Sample, and a "matched multiple
\* individual ids" message naming all tied candidates is logged.
C6_TieIsReported ==
    [][\A id \in Ids :
         LET pool == individual_ids_without_matching_sample_record
         IN (/\ FuzzyPassFor(id)
             /\ BestDistance(id, pool) < max_edit_distance
             /\ Cardinality(BestIds(id, pool)) >= 2)
            => /\ id \notin DOMAIN vcf_sample_id_to_sample_record'
               /\ \A s \in created' : s.sample_id # id
               /\ \E m \in log' :
                     /\ m.msg = "matched multiple individual ids"
                     /\ m.vcf_sample_id = id
                     /\ {m.individual_ids[k] : k \in 1..Len(m.individual_ids)}
                            = BestIds(id, pool)]_vars

\* C7: the threshold is strict: when the smallest distance from an external
\* id to the unclaimed pool equals max_edit_distance, the pass does not fail,
\* the id stays out of the mapping and no Sample is created for it.
C7_ThresholdIsStrict ==
    [][\A id \in Ids :
         LET pool == individual_ids_without_matching_sample_record
         IN (/\ FuzzyPassFor(id)
             /\ BestDistance(id, pool) = max_edit_distance)
            => /\ pc' # "raised"
               /\ exception' = None
               /\ id \notin DOMAIN vcf_sample_id_to_sample_record'
               /\ \A s \in created' : s.sample_id # id]_vars

\* C8: the call never ends in an exception, whatever ids are unmatched or
\* ambiguous.
C8_NeverRaises == pc # "raised" /\ exception = None

\* C9: an external id that is the sample_id of a Sample of the requested
\* type in the project, present before the call, is bound to such a Sample
\* from step 1 on; no Sample is created for it and the fuzzy stage never
\* visits it.
C9_ExactSampleMatchFirst ==
    pc \notin {"idle", "step1"} =>
        \A id \in vcf_sample_ids :
            ExistingSamplesFor(id) # {} =>
                /\ id \in DOMAIN vcf_sample_id_to_sample_record
                /\ vcf_sample_id_to_sample_record[id] \in ExistingSamplesFor(id)
                /\ \A s \in created : s.sample_id # id
                /\ id \notin fuzzy_visited
                /\ id \notin fuzzy_todo

\* C9 witness: a call with max_edit_distance > 0 returned; one id was bound
\* to its existing Sample while the fuzzy stage visited another id
C9_Witness ==
    /\ pc = "returned"
    /\ max_edit_distance > 0
    /\ fuzzy_visited # {}
    /\ \E id \in vcf_sample_ids :
          /\ ExistingSamplesFor(id) # {}
          /\ vcf_sample_id_to_sample_record[id] \in ExistingSamplesFor(id)
          /\ \E i \in all_individuals : i.individual_id = id

\* the project held no Sample when the call began
NoSamplesInProject ==
    \A s \in PreExisting : IndividualOf(s).project # project

\* C10: with max_edit_distance = 0 and not validate_only, in a project
\* without samples, the call returns; every external id that is the
\* individual_id of an individual of the project has exactly one new Sample
\* (that sample_id, the requested type, owned by that individual) and is
\* bound to it; every other external id is unmatched; individuals whose id
\* is no external id have no Sample; the fuzzy stage visits nothing.
C10_ExactIndividualMatch ==
    (pc # "idle" /\ max_edit_distance = 0 /\ ~validate_only /\ NoSamplesInProject) =>
        /\ pc # "raised"
        /\ fuzzy_visited = {}
        /\ pc = "returned" =>
              /\ \A id \in vcf_sample_ids :
                    LET owners == {i \in all_individuals : i.individual_id = id}
                        made == {s \in created : s.sample_id = id}
                    IN IF owners = {}
                       THEN made = {} /\ id \notin DOMAIN vcf_sample_id_to_sample_record
                       ELSE /\ Cardinality(made) = 1
                            /\ \A s \in made :
                                  /\ s.sample_type = sample_type
                                  /\ \E i \in owners : s.individual = i.guid
                                  /\ vcf_sample_id_to_sample_record[id] = s
              /\ \A i \in all_individuals :
                    i.individual_id \notin vcf_sample_ids =>
                        \A s \in samples : s.individual # i.guid
              /\ \A s \in created : s.sample_id \in vcf_sample_ids

\* C10 witness: individuals S1, S2, S9 without samples, ids S1 and S2,
\* max_edit_distance 0: two new Samples, S9 untouched, nothing unmatched
C10_Witness ==
    /\ pc = "returned"
    /\ max_edit_distance = 0
    /\ ~validate_only
    /\ NoSamplesInProject
    /\ vcf_sample_ids = {S1, S2}
    /\ {i.individual_id : i \in all_individuals} = {S1, S2, S9}
    /\ Cardinality(created) = 2
    /\ remaining_vcf_sample_ids = {}
    /\ \A s \in samples : IndividualOf(s).individual_id # S9

\* the bindings the fuzzy stage announced (line 197): the external id and
\* the individual id it was matched to
FuzzyTargets ==
    {[vcf_sample_id |-> m.vcf_sample_id, individual_id |-> m.individual_ids[1]] :
         m \in {l \in log : l.msg = "individual id matched VCF sample id"}}

\* the individual ids consumed by the exact stages: the owners of the
\* Samples bound by steps 1 and 2 (under validate_only step 2 binds the
\* individual whose id is the external id)
ExactlyConsumedIds ==
    {IF vcf_sample_id_to_sample_record[id] = Placeholder
     THEN id
     ELSE IndividualOf(vcf_sample_id_to_sample_record[id]).individual_id :
         id \in (DOMAIN vcf_sample_id_to_sample_record)
                    \ {t.vcf_sample_id : t \in FuzzyTargets}}

\* C11: within one call, an individual consumed by an exact sample-id or
\* individual-id match, or by an earlier fuzzy match, is never the target of
\* a fuzzy match: the pool the fuzzy stage draws from holds no exactly
\* consumed individual id, no fuzzy target is an exactly consumed individual
\* id, and no individual id is the fuzzy target of two external ids.
C11_ConsumedNeverFuzzyTarget ==
    /\ pc = "fuzzy" =>
           individual_ids_without_matching_sample_record \cap ExactlyConsumedIds = {}
    /\ \A t \in FuzzyTargets : t.individual_id \notin ExactlyConsumedIds
    /\ \A t1, t2 \in FuzzyTargets :
           t1.individual_id = t2.individual_id => t1.vcf_sample_id = t2.vcf_sample_id
    /\ \A s \in created :
           s.sample_id \in fuzzy_visited =>
               IndividualOf(s).individual_id \notin ExactlyConsumedIds

\* C11 witness: a call returned in which step 2 consumed an individual and
\* the fuzzy stage then visited another id that has a candidate below the
\* threshold in the pool
C11_Witness ==
    /\ pc = "returned"
    /\ ~validate_only
    /\ ExactlyConsumedIds # {}
    /\ \E id \in fuzzy_visited :
          \E p \in individual_ids_without_matching_sample_record :
             compute_edit_distance(id, p) < max_edit_distance
    /\ \A id \in fuzzy_visited : id \notin DOMAIN vcf_sample_id_to_sample_record

\* the external ids steps 1 and 2 bind, with or without validate_only: the
\* sample ids of existing Samples of this type and the individual ids of the
\* project
ExactMatchIds ==
    {id \in vcf_sample_ids :
        \/ ExistingSamplesFor(id) # {}
        \/ \E i \in all_individuals : i.individual_id = id}

\* C13: a validate_only call reports what would have matched: it does not
\* fail where the same call without validate_only goes on (the
\* AttributeError of line 180 arises under validate_only alone), and the
\* keys of the mapping it returns are the ids a non-validate call binds.
C13_ValidateOnlyReportsMatches ==
    validate_only =>
        /\ exception # "AttributeError"
        /\ pc = "returned" => DOMAIN vcf_sample_id_to_sample_record = ExactMatchIds

\* the state of the inner loop when a pass of the loop of line 184 begins
\* (lines 186-187)
LoopStart ==
    [lowest |-> max_edit_distance,
     plural |-> <<>>,
     bound |-> current_lowest_edit_distance_individual.bound,
     singular |-> current_lowest_edit_distance_individual.list,
     raised |-> None]

\* how the pass for id ends when Python iterates over the pool in this
\* order: the exception raised (or None) and the lowest distance kept
PassOutcome(id, order) ==
    LET loop == InnerLoop(LoopStart, order, 1, id)
    IN [raised |-> loop.raised,
        lowest |-> IF loop.raised = None THEN loop.lowest ELSE 0]

\* C14: matching is deterministic: from one state of the call, the pass of
\* the fuzzy stage for an external id ends the same way (same exception or
\* none, same lowest distance) whatever order the set of unclaimed
\* individual ids is iterated in, so that two runs on the same inputs cannot
\* differ in their matched, bound and unmatched ids.
C14_Deterministic ==
    pc = "fuzzy" =>
        \A id \in fuzzy_todo :
            \A o1, o2 \in Orders(individual_ids_without_matching_sample_record) :
                PassOutcome(id, o1) = PassOutcome(id, o2)

\* C15: in one call at most one new Sample is created per external id, and
\* every Sample created has an external id of the call as its sample_id.
C15_AtMostOneNewSamplePerId ==
    /\ \A s \in created : s.sample_id \in vcf_sample_ids
    /\ \A s1, s2 \in created : s1.sample_id = s2.sample_id => s1 = s2

\* C15 witness: project P1 and another project both hold an individual S1;
\* the call for P1 with ids S1 and a second, unmatched id returned having
\* created the one Sample for S1
C15_Witness ==
    /\ pc = "returned"
    /\ \E i, j \in individuals :
          /\ i.individual_id = S1 /\ j.individual_id = S1
          /\ i.project = project /\ j.project # project
          /\ created = {[sample_id |-> S1, sample_type |-> sample_type,
                         individual |-> i.guid]}
    /\ S1 \in vcf_sample_ids
    /\ remaining_vcf_sample_ids # {}

\* C16: a call leaves every Individual row and every Sample row that was
\* there as it is and deletes none: each step keeps the Individual table,
\* the Family, Dataset and link tables, and all old Sample rows, and every
\* row it adds is a Sample it created.
C16_OnlyCreatesSamples ==
    [][/\ individuals' = individuals
       /\ samples \subseteq samples'
       /\ (samples' \ samples) \subseteq (created' \ created)
       /\ UNCHANGED <<families, datasets, links>>]_vars

\* C16 witness: a call returned that created a Sample in a project where
\* another Sample of the requested type was there before
C16_Witness ==
    /\ pc = "returned"
    /\ created # {}
    /\ \E s \in PreExisting :
          /\ IndividualOf(s).project = project
          /\ s.sample_type = sample_type
          /\ s.sample_id \notin vcf_sample_ids

-----------------------------------------------------------------------------
(* Properties of Command.handle *)

\* an invocation is under way or has just ended
InInvocation == h_pc # "idle"

\* the invocation has returned
Returned == h_pc = "done"

\* C12: a validate_only invocation writes nothing: from its start to its end
\* the Sample, Dataset, Individual, Family and link tables are what they
\* were when it began, whatever the ids, the project, max_edit_distance and
\* the answer a prompt would get.
C12_ValidateOnlyWritesNothing ==
    (InInvocation /\ validate_only) => Store = at_start

\* C12 witness: a validate_only invocation returned after matching both ids
\* of the VCF by individual id; no record was written
C12_Witness ==
    /\ Returned
    /\ validate_only
    /\ Cardinality(DOMAIN vcf_sample_id_to_sample_record) = 2
    /\ \A id \in DOMAIN vcf_sample_id_to_sample_record :
          vcf_sample_id_to_sample_record[id] = Placeholder
    /\ Store = at_start
    /\ datasets = {}

\* every link has been added by an invocation
LinksAreRecorded ==
    \A k \in links :
        \E l \in linked_by : l.dataset = k.dataset /\ l.sample = k.sample

\* C17: every Sample linked to a Dataset is owned by an Individual of the
\* project the linking invocation was run for.
C17_LinksStayInProject ==
    /\ LinksAreRecorded
    /\ \A l \in linked_by : IndividualOf(l.sample).project = l.project

\* C17 witness: invocations for two projects have each linked the Sample of
\* their own individual S1 to a Dataset of the same VCF path
C17_Witness ==
    \E l1, l2 \in linked_by :
        /\ l1.project = "P1" /\ l2.project = "P2"
        /\ l1.sample.sample_id = S1 /\ l2.sample.sample_id = S1
        /\ l1.dataset # l2.dataset
        /\ \E d1, d2 \in datasets :
              /\ d1.id = l1.dataset /\ d2.id = l2.dataset
              /\ d1.source_file_path = d2.source_file_path

\* the Dataset of this invocation's VCF and project in the store as it was
\* when the invocation began
DatasetsAtStart ==
    {d \in at_start.datasets :
        /\ d.source_file_path = vcf_path
        /\ \E l \in at_start.links : /\ l.dataset = d.id
                                     /\ IndividualOf(l.sample).project = project}

\* every Sample the matching bound was linked to that Dataset at the start
MatchedSetWasLinked ==
    /\ DatasetsAtStart # {}
    /\ vcf_sample_id_to_sample_record # EmptyDict
    /\ \A id \in DOMAIN vcf_sample_id_to_sample_record :
          \E d \in DatasetsAtStart :
             [dataset |-> d.id, sample |-> vcf_sample_id_to_sample_record[id]]
                 \in at_start.links

\* C18: after any sequence of invocations there is at most one Dataset of a
\* VCF path for a project (links being a relation, a Sample is linked to it
\* once), and an invocation whose matched Samples were all linked already
\* returns with the Dataset and link tables as they were.
C18_LinkingIsIdempotent ==
    /\ \A p \in Projects, path \in VcfPaths :
          Cardinality(DatasetsFor(path, p)) <= 1
    /\ (Returned /\ ~validate_only /\ MatchedSetWasLinked) =>
          /\ datasets = at_start.datasets
          /\ links = at_start.links

\* C18 witness: the second invocation for a VCF and project went through
\* the link step with two matched Samples that were linked already, and
\* left the one Dataset and its links as they were
C18_Witness ==
    /\ Returned
    /\ ~validate_only
    /\ invocations = 1
    /\ MatchedSetWasLinked
    /\ load_calls = 1
    /\ Cardinality(datasets) = 1
    /\ Cardinality(links) = 2
    /\ links = at_start.links

\* the Dataset of this VCF and project was loaded, and linked to a Sample for
\* every sample id of the VCF, when the invocation began
FullyLoadedAtStart ==
    \E d \in DatasetsAtStart :
        /\ d.is_loaded
        /\ \A id \in VcfFiles[vcf_path] :
              \E l \in at_start.links : l.dataset = d.id /\ l.sample.sample_id = id

\* the invocation reported that all samples are loaded already (line 83)
ReportedAlreadyLoaded ==
    \E m \in log : m.msg = "samples in this VCF are already loaded"

\* C19: an invocation that finds the Dataset loaded and every external id of
\* the VCF linked reports so and does nothing more (no prompt, no Family or
\* Individual, no Dataset, no link, no load); and it reports so only then,
\* never while an external id of the VCF is not linked.
C19_ShortcutOnlyWhenFullyLoaded ==
    Returned =>
        /\ FullyLoadedAtStart =>
              /\ ReportedAlreadyLoaded
              /\ prompts = 0
              /\ load_calls = 0
              /\ new_links = {}
              /\ individuals = at_start.individuals
              /\ families = at_start.families
              /\ datasets = at_start.datasets
              /\ links = at_start.links
        /\ ReportedAlreadyLoaded => FullyLoadedAtStart

\* C20: _load_dataset is called only by an invocation that links a Sample
\* that was not linked before; one that adds no link does not call it.
C20_LoadOnlyForNewLinks ==
    load_calls > 0 => new_links # {}


-----------------------------------------------------------------------------
(* Families and individuals made for the ids the matching left over *)

\* the ids of the header of the VCF that the matching bound to no sample
UnmatchedVcfIds ==
    IF vcf_path \in DOMAIN VcfFiles
    THEN VcfFiles[vcf_path] \ DOMAIN vcf_sample_id_to_sample_record
    ELSE {}

\* C21: a Family or an Individual is created only by the step that asks the
\* question, in an invocation that is not validate_only, when the answer is
\* yes, and only for ids of the VCF that the matching left unmatched, with
\* family_id = individual_id = that id; nothing is removed, and an answer of
\* no creates none.
C21_ProvisionOnlyOnYes ==
    [][ (individuals' # individuals \/ families' # families) =>
          /\ h_pc = "prompt"
          /\ ~validate_only
          /\ prompts' = prompts + 1
          /\ responded_yes' = "yes"
          /\ individuals \subseteq individuals'
          /\ families \subseteq families'
          /\ \A i \in individuals' \ individuals :
                /\ i.individual_id \in UnmatchedVcfIds
                /\ i.project = project
                /\ [family_id |-> i.individual_id, project |-> project]
                       \in families'
          /\ \A f \in families' \ families :
                /\ f.family_id \in UnmatchedVcfIds
                /\ f.project = project
      ]_vars

\* C21 witness: the question was answered yes and individuals were made
C21_Witness ==
    /\ responded_yes = "yes"
    /\ h_pc = "link"
    /\ individuals # at_start.individuals
    /\ families # at_start.families

\* the invocation is past the question of lines 92-98 (so it is not
\* validate_only and was not cut short as already loaded)
PastDecisionPoint == h_pc = "link"

\* C22: an invocation that is not validate_only, was not cut short as already
\* loaded, and whose matching left an id of the VCF unmatched asks the
\* question exactly once, whether or not a Dataset of this VCF and project
\* exists; with no id unmatched it never asks.
C22_PromptIffUnmatched ==
    PastDecisionPoint =>
        /\ prompts <= 1
        /\ (prompts = 1) <=> (UnmatchedVcfIds # {})

\* (the part of C22 that holds: when no Dataset of this VCF and project was
\* there at the start, the question is asked exactly when an id is unmatched;
\* and it is never asked with no id unmatched)
PromptIffUnmatchedWithoutDataset ==
    PastDecisionPoint =>
        /\ prompts <= 1
        /\ prompts = 1 => UnmatchedVcfIds # {}
        /\ (DatasetsAtStart = {} /\ UnmatchedVcfIds # {}) => prompts = 1

-----------------------------------------------------------------------------
(* Failures part-way through an invocation *)

\* the invocation has ended with an exception
Failed ==
    \/ h_pc = "raised"
    \/ h_pc = "matching" /\ pc = "raised"

\* C23: the writes of an invocation are all or nothing: when the invocation
\* fails, no Sample, Dataset, link, Family or Individual it wrote before the
\* failure remains, i.e. the record store is what it was at the start.
C23_FailureLeavesNoWrites ==
    Failed => Store = at_start

-----------------------------------------------------------------------------
(* A VCF whose header has no sample columns *)

\* C25: a source that yields no sample ids is invalid input: the invocation
\* is rejected with an error, and no matching is performed on an empty set
\* of ids (the call of _match_vcf_id_to_sample_id is never made with one).
C25_EmptyIdSetRejected ==
    pc # "idle" => vcf_sample_ids # {}

\* (what does hold for such a VCF: the invocation writes nothing)
EmptyIdSetWritesNothing ==
    (InInvocation /\ vcf_path = "gs://seqr/empty.vcf.gz") => Store = at_start

-----------------------------------------------------------------------------
(* Two invocations of add_vcf at the same time, with the same project,     *)
(* vcf_path and sample type, not validate_only and with the default        *)
(* --max-edit-distance-for-id-match of 0 (so that line 183 skips the fuzzy *)
(* stage).  Nothing in add_vcf.py opens a transaction or takes a lock:     *)
(* every query and every create is a statement of its own, committed when  *)
(* it is executed, and the statements of the two invocations interleave.   *)
(* Each invocation has its own locals (c_mapping, c_ids, c_dataset); the   *)
(* record store is shared.                                                 *)

ConcInit ==
    /\ source = <<>>
    /\ target = <<>>
    /\ ed_pc = "idle"
    /\ ed_result = None
    /\ individuals \in AddVcfSeedIndividuals
    /\ samples = {}
    /\ families = SeedFamilies(individuals)
    /\ datasets = {}
    /\ links = {}
    /\ linked_by = {}
    /\ invocations = 0
    \* the options both invocations are given
    /\ project \in Projects
    /\ sample_type \in SampleTypes
    /\ validate_only = FALSE
    /\ max_edit_distance = 0
    /\ vcf_path \in {"gs://seqr/a.vcf.gz", "gs://seqr/b.vcf.gz"}
    \* the single-invocation locals are not in use
    /\ vcf_sample_ids = {}
    /\ pc = "idle"
    /\ vcf_sample_id_to_sample_record = EmptyDict
    /\ individual = NoIndividual
    /\ individual_ids_without_matching_sample_record = {}
    /\ current_lowest_edit_distance_individual = [bound |-> FALSE, list |-> <<>>]
    /\ fuzzy_todo = {}
    /\ exception = None
    /\ log = {}
    /\ created = {}
    /\ fuzzy_visited = {}
    /\ handle_vcf_sample_ids = {}
    /\ h_pc = "idle"
    /\ prompts = 0
    /\ responded_yes = "unasked"
    /\ load_calls = 0
    /\ new_links = {}
    /\ at_start = NoSnapshot
    /\ first_run = NoRun
    \* both invocations have passed lines 39-61
    /\ c_pc = [p \in Procs |-> "step1"]
    /\ c_mapping = [p \in Procs |-> EmptyDict]
    /\ c_ids = [p \in Procs |-> VcfFiles[vcf_path]]
    /\ c_dataset = [p \in Procs |-> 0]
    /\ c_created = [p \in Procs |-> {}]
    /\ IgvIdle
    /\ EsIdle
    /\ BamsIdle

\* what a step of one of the two invocations leaves alone
ConcUnchanged ==
    UNCHANGED <<ed_vars, arg_vars, local_vars, handle_vcf_sample_ids, vcf_path,
                h_pc, prompts, responded_yes, load_calls, new_links, linked_by,
                invocations, at_start, first_run, igv_vars, es_vars,
                bams_vars>>

\* lines 151-160 in invocation p
ConcStep1 ==
    \E p \in Procs :
      /\ c_pc[p] = "step1"
      /\ LET matched == {id \in VcfFiles[vcf_path] :
                            \E s \in SamplesOfThisType : s.sample_id = id}
         IN \E existing_samples_of_this_type \in [matched -> SamplesOfThisType] :
              /\ \A id \in matched :
                     existing_samples_of_this_type[id].sample_id = id
              /\ c_mapping' = [c_mapping EXCEPT ![p] = existing_samples_of_this_type]
      /\ c_pc' = [c_pc EXCEPT ![p] = "step2"]
      /\ UNCHANGED <<store_vars, families, datasets, links, c_ids, c_dataset,
                     c_created>>
      /\ ConcUnchanged

\* lines 162-175 in invocation p (and lines 177-226, which with
\* max_edit_distance = 0 and real Sample rows in the dict write nothing)
ConcStep2 ==
    \E p \in Procs :
      /\ c_pc[p] = "step2"
      /\ LET remaining == VcfFiles[vcf_path] \ DOMAIN c_mapping[p]
             hits == {i \in all_individuals : i.individual_id \in remaining}
             rows == {NewSample(i.individual_id, i) : i \in hits}
         IN /\ samples' = SampleRowsAfterCreate(rows)
            /\ c_created' = [c_created EXCEPT ![p] = @ \cup rows]
            /\ c_mapping' = [c_mapping EXCEPT ![p] =
                   Merge(@, [id \in {i.individual_id : i \in hits} |->
                               NewSample(id, CHOOSE i \in hits : i.individual_id = id)])]
      /\ c_pc' = [c_pc EXCEPT ![p] = "lookup"]
      /\ UNCHANGED <<individuals, families, datasets, links, c_ids, c_dataset>>
      /\ ConcUnchanged

\* lines 71-90 in invocation p
ConcLookup ==
    \E p \in Procs :
      /\ c_pc[p] = "lookup"
      /\ LET got == DatasetObjectsGet(vcf_path, project)
         IN IF got.raised = "MultipleObjectsReturned"
            THEN /\ c_pc' = [c_pc EXCEPT ![p] = "raised"]
                 /\ UNCHANGED c_ids
            ELSE IF got.raised = "ObjectDoesNotExist"
            THEN /\ c_pc' = [c_pc EXCEPT ![p] = "prompt"]
                 /\ UNCHANGED c_ids
            ELSE LET dataset == CHOOSE d \in got.found : TRUE
                 IN /\ c_ids' = [c_ids EXCEPT ![p] = DOMAIN c_mapping[p]]   \* 80
                    /\ c_pc' = [c_pc EXCEPT ![p] =
                           IF /\ dataset.is_loaded                          \* 82
                              /\ (DOMAIN c_mapping[p]) \ SampleIdsOf(dataset) = {}
                           THEN "done" ELSE "prompt"]
      /\ UNCHANGED <<store_vars, families, datasets, links, c_mapping,
                     c_dataset, c_created>>
      /\ ConcUnchanged

\* lines 92-98 in invocation p
ConcPrompt ==
    \E p \in Procs :
      /\ c_pc[p] = "prompt"
      /\ IF Cardinality(DOMAIN c_mapping[p]) < Cardinality(c_ids[p])
         THEN \E answer \in {"yes", "no"} :
                IF answer = "yes"
                THEN LET extra == c_ids[p] \ DOMAIN c_mapping[p]
                     IN /\ families' = families \cup
                               {NewFamily(project, id) : id \in extra}
                        /\ individuals' = individuals \cup
                               {NewIndividual(project, id) : id \in extra}
                ELSE UNCHANGED <<families, individuals>>
         ELSE UNCHANGED <<families, individuals>>
      /\ c_pc' = [c_pc EXCEPT ![p] = "get"]
      /\ UNCHANGED <<samples, datasets, links, c_mapping, c_ids, c_dataset,
                     c_created>>
      /\ ConcUnchanged

\* lines 101-109 in invocation p: the second lookup of the Dataset
ConcGet ==
    \E p \in Procs :
      /\ c_pc[p] = "get"
      /\ IF c_mapping[p] = EmptyDict                                   \* 101
         THEN /\ c_pc' = [c_pc EXCEPT ![p] = "done"]
              /\ UNCHANGED c_dataset
         ELSE LET got == DatasetObjectsGet(vcf_path, project)
              IN IF got.raised = "MultipleObjectsReturned"
                 THEN /\ c_pc' = [c_pc EXCEPT ![p] = "raised"]
                      /\ UNCHANGED c_dataset
                 ELSE IF got.raised = "ObjectDoesNotExist"
                 THEN /\ c_pc' = [c_pc EXCEPT ![p] = "create"]
                      /\ UNCHANGED c_dataset
                 ELSE /\ c_dataset' = [c_dataset EXCEPT ![p] =
                             (CHOOSE d \in got.found : TRUE).id]
                      /\ c_pc' = [c_pc EXCEPT ![p] = "add"]
      /\ UNCHANGED <<store_vars, families, datasets, links, c_mapping, c_ids,
                     c_created>>
      /\ ConcUnchanged

\* lines 110-114 in invocation p: Dataset.objects.create
ConcCreate ==
    \E p \in Procs :
      /\ c_pc[p] = "create"
      /\ datasets' = datasets \cup {NewDataset(vcf_path)}
      /\ c_dataset' = [c_dataset EXCEPT ![p] = NewDataset(vcf_path).id]
      /\ c_pc' = [c_pc EXCEPT ![p] = "add"]
      /\ UNCHANGED <<store_vars, families, links, c_mapping, c_ids, c_created>>
      /\ ConcUnchanged

\* lines 116-120 in invocation p: dataset.samples.add for every sample of
\* the mapping, and _load_dataset, which only prints
ConcAdd ==
    \E p \in Procs :
      /\ c_pc[p] = "add"
      /\ links' = links \cup
             {[dataset |-> c_dataset[p], sample |-> c_mapping[p][id]] :
                 id \in DOMAIN c_mapping[p]}
      /\ c_pc' = [c_pc EXCEPT ![p] = "done"]
      /\ UNCHANGED <<store_vars, families, datasets, c_mapping, c_ids,
                     c_dataset, c_created>>
      /\ ConcUnchanged

ConcNext ==
    \/ ConcStep1
    \/ ConcStep2
    \/ ConcLookup
    \/ ConcPrompt
    \/ ConcGet
    \/ ConcCreate
    \/ ConcAdd

SpecConcurrent == ConcInit /\ [][ConcNext]_vars

\* both invocations have ended
BothEnded == \A p \in Procs : c_pc[p] \in {"done", "raised"}

\* C24: two invocations running at the same time for one project and
\* vcf_path never both commit a new Dataset, and never both create a Sample
\* for the same external id: whatever the interleaving, when both have ended
\* there is at most one Dataset of this VCF in this project and no Sample row
\* was created by both.
C24_NoDuplicatesUnderConcurrency ==
    BothEnded =>
        /\ Cardinality(DatasetsFor(vcf_path, project)) <= 1
        /\ c_created[1] \cap c_created[2] = {}

\* (the two halves of C24 apart)
AtMostOneDatasetUnderConcurrency ==
    BothEnded => Cardinality(DatasetsFor(vcf_path, project)) <= 1

NoSampleCreatedTwiceUnderConcurrency ==
    BothEnded => c_created[1] \cap c_created[2] = {}

-----------------------------------------------------------------------------
(* A second call of _match_vcf_id_to_sample_id after a first, with the same *)
(* arguments, on the store the first call left                             *)

\* the second call, lines 143-149: the first call has returned; its locals
\* are gone and the new call starts with none bound
InvokeAgain ==
    /\ pc = "returned"
    /\ ~validate_only
    /\ ~first_run.ran
    /\ first_run' = [ran |-> TRUE,
                     args |-> <<vcf_sample_ids, project, sample_type,
                                max_edit_distance>>,
                     result |-> vcf_sample_id_to_sample_record,
                     samples |-> samples]
    /\ vcf_sample_id_to_sample_record' = EmptyDict
    /\ log' = {Message("sample IDs found in VCF", <<>>, <<>>,
                       Cardinality(vcf_sample_ids))}
    /\ pc' = "step1"
    /\ individual' = NoIndividual
    /\ individual_ids_without_matching_sample_record' = {}
    /\ current_lowest_edit_distance_individual' = [bound |-> FALSE, list |-> <<>>]
    /\ fuzzy_todo' = {}
    /\ created' = {}
    /\ fuzzy_visited' = {}
    /\ UNCHANGED <<ed_vars, store_vars, arg_vars, handle_vars, conc_vars,
                   igv_vars, es_vars, bams_vars, exception>>

RematchNext ==
    \/ Invoke
    \/ Step1
    \/ Step2
    \/ Step3
    \/ FuzzyStage
    \/ Return
    \/ InvokeAgain

SpecRematch == MatchInit /\ [][RematchNext]_vars

\* the second call has ended, by a return or by an exception
SecondRunEnded == first_run.ran /\ pc \in {"returned", "raised"}

\* C28: after a call that was not validate_only has returned, a second call
\* with the same ids, project, sample type and max_edit_distance creates no
\* Sample and returns the same matched ids, each bound to the Sample the
\* first call bound it to.
C28_RematchIsIdempotent ==
    SecondRunEnded =>
        /\ pc = "returned"
        /\ samples = first_run.samples
        /\ vcf_sample_id_to_sample_record = first_run.result

\* (the parts of C28 apart: the second call creates no Sample; when it
\* returns, it returns what the first returned; it returns)
SecondRunCreatesNoSample ==
    first_run.ran => (samples = first_run.samples /\ created = {})

SecondRunReturnsTheSame ==
    (first_run.ran /\ pc = "returned") =>
        vcf_sample_id_to_sample_record = first_run.result

SecondRunReturns ==
    first_run.ran => pc # "raised"

-----------------------------------------------------------------------------
(* check_bam_cram_paths.py: Command.handle, lines 28-49 *)

\* the files that exist: hl.hadoop_is_file(path) (check_bam_cram_paths.py
\* line 35) and does_file_exist(path) (upload_bams_file.py line 99) are true
\* of these paths and of no other
ExistingFiles ==
    {"gs://bams/here.bam", "gs://bams/also.bam", "gs://bams/here.cram",
     "gs://bams/here.txt", "/local/here.bam"}

\* the file_path values an IgvSample may hold before the command runs
CheckPaths == {"", "gs://bams/here.bam", "gs://bams/gone.bam", "/local/gone.bam"}

\* the individuals that have an IgvSample: two of project P1, one of P2
CheckIndividuals == {i \in IndividualUniverse : i.guid \in {"I1", "I2", "I4"}}

\* one IgvSample row
IgvSample(individual_guid, type, path, id) ==
    [individual |-> individual_guid, sample_type |-> type, file_path |-> path,
     sample_id |-> id]

\* (mutation of FileNotFound: the gs:// test is dropped)
FileNotFound_any_scheme(s) ==
    /\ s.file_path # ""
    /\ s.file_path \notin ExistingFiles

\* the test of line 35: sample.file_path and
\* sample.file_path.startswith("gs://") and not hl.hadoop_is_file(...)
FileNotFound(s) ==
    /\ s.file_path # ""
    /\ StartsWithGs(s.file_path)
    /\ s.file_path \notin ExistingFiles

\* lines 29-31: the samples of the projects named, or every sample.  The
\* name of a project is what the Individual rows of the model call project.
SelectedSamples(args) ==
    IF args # {}
    THEN {s \in igv_samples : IndividualOf(s).project \in args}
    ELSE igv_samples

\* what a step of check_bam_cram_paths leaves alone
CheckUnchanged ==
    UNCHANGED <<ed_vars, store_vars, arg_vars, local_vars, handle_vars,
                first_run, conc_vars, es_vars, bams_vars>>

\* lines 28-33: the options, the query and the empty counter
CheckStart ==
    /\ cb_pc = "idle"
    /\ \E args \in SUBSET Projects, dry_run \in BOOLEAN :
          /\ cb_args' = args
          /\ cb_dry_run' = dry_run
          /\ cb_todo' = SelectedSamples(args)
    /\ cb_missing' = [p \in Projects |-> 0]
    /\ cb_at_start' = igv_samples
    /\ cb_pc' = "loop"
    /\ UNCHANGED igv_samples
    /\ CheckUnchanged

\* lines 34-42: one pass of the loop, for a sample the query yielded
CheckSample ==
    /\ cb_pc = "loop"
    /\ \E sample \in cb_todo :
          /\ cb_todo' = cb_todo \ {sample}
          /\ IF FileNotFound(sample)                                    \* 35
             THEN /\ cb_missing' =
                        [cb_missing EXCEPT ![IndividualOf(sample).project] = @ + 1]
                  /\ IF ~cb_dry_run                                     \* 40
                     THEN igv_samples' =
                            {IF /\ s.individual = sample.individual
                                /\ s.sample_type = sample.sample_type
                             THEN [sample EXCEPT !.file_path = ""]      \* 41-42
                             ELSE s : s \in igv_samples}
                     ELSE UNCHANGED igv_samples
             ELSE UNCHANGED <<cb_missing, igv_samples>>
    /\ UNCHANGED <<cb_pc, cb_args, cb_dry_run, cb_at_start>>
    /\ CheckUnchanged

\* lines 44-49: the loop is over; the totals are logged
CheckDone ==
    /\ cb_pc = "loop"
    /\ cb_todo = {}
    /\ cb_pc' = "done"
    /\ UNCHANGED <<igv_samples, cb_args, cb_dry_run, cb_todo, cb_missing,
                   cb_at_start>>
    /\ CheckUnchanged

CheckInit ==
    /\ source = <<>>
    /\ target = <<>>
    /\ ed_pc = "idle"
    /\ ed_result = None
    /\ individuals = CheckIndividuals
    /\ samples = {}
    /\ families = SeedFamilies(individuals)
    /\ datasets = {}
    /\ links = {}
    /\ linked_by = {}
    /\ invocations = 0
    /\ MatchIdle
    /\ HandleIdle
    /\ first_run = NoRun
    /\ ConcIdle
    /\ \E paths \in [{"I1", "I2", "I4"} -> CheckPaths] :
          igv_samples = {IgvSample(g, "alignment", paths[g], None) :
                            g \in {"I1", "I2", "I4"}}
    /\ cb_pc = "idle"
    /\ cb_args = {}
    /\ cb_dry_run = FALSE
    /\ cb_todo = {}
    /\ cb_missing = [p \in Projects |-> 0]
    /\ cb_at_start = {}
    /\ EsIdle
    /\ BamsIdle

CheckNext ==
    \/ CheckStart
    \/ CheckSample
    \/ CheckDone

SpecCheckPaths == CheckInit /\ [][CheckNext]_vars

\* the row the table held at the start for the individual and type of s
RowAtStart(s) ==
    CHOOSE r \in cb_at_start :
        r.individual = s.individual /\ r.sample_type = s.sample_type

\* the individuals and types that have a row in a table
RowKeys(table) == {<<r.individual, r.sample_type>> : r \in table}

\* C26: with --dry-run the command modifies no IgvSample; without it, it
\* clears file_path only on samples of the selected projects whose path
\* starts with gs:// and names no file, leaves every other sample (another
\* scheme, empty path, existing file, other project) as it was, and deletes
\* no record.
C26_ClearsOnlyMissingGsPaths ==
    cb_pc # "idle" =>
        /\ RowKeys(igv_samples) = RowKeys(cb_at_start)
        /\ Cardinality(igv_samples) = Cardinality(cb_at_start)
        /\ cb_dry_run => igv_samples = cb_at_start
        /\ \A s \in igv_samples :
              \/ s = RowAtStart(s)
              \/ /\ s = [RowAtStart(s) EXCEPT !.file_path = ""]
                 /\ RowAtStart(s).file_path = "gs://bams/gone.bam"
                 /\ cb_args = {} \/ IndividualOf(s).project \in cb_args

\* C26 witness: a run without --dry-run, for project P1 only, has ended; it
\* cleared the missing gs:// path of one sample and left a missing path of
\* another scheme and a missing gs:// path of the other project as they were
C26_Witness ==
    /\ cb_pc = "done"
    /\ ~cb_dry_run
    /\ cb_args = {"P1"}
    /\ IgvSample("I1", "alignment", "gs://bams/gone.bam", None) \in cb_at_start
    /\ IgvSample("I1", "alignment", "", None) \in igv_samples
    /\ IgvSample("I2", "alignment", "/local/gone.bam", None) \in igv_samples
    /\ IgvSample("I4", "alignment", "gs://bams/gone.bam", None) \in igv_samples

-----------------------------------------------------------------------------
(* upload_es_index.py: Command.handle, lines 155-171, and the two functions *)
(* it calls                                                                *)

\* the Elasticsearch indexes --index may name: whether
\* validate_index_metadata_and_get_elasticsearch_index_samples accepts the
\* index, and the sample ids it returns
EsIndexes ==
    [index \in {"idx_s1", "idx_s1_s9", "idx_empty", "idx_invalid"} |->
        IF index = "idx_s1" THEN [valid |-> TRUE, sample_ids |-> {S1}]
        ELSE IF index = "idx_s1_s9" THEN [valid |-> TRUE, sample_ids |-> {S1, S9}]
        ELSE IF index = "idx_empty" THEN [valid |-> TRUE, sample_ids |-> {}]
        ELSE [valid |-> FALSE, sample_ids |-> {}]]

\* values given as --user: the id of a user, and an id no user has
EsUsers == {"1", "7"}

\* the ids of the index that match_and_update_samples (lines 65-75) finds no
\* individual of the project for.  No mapping file is given and
\* ignoreExtraSamplesInCallset is not set, so that it raises ValueError
\* ('Matches not found for ES sample ids ...') when there is one.
EsUnmatched(project_guid, sample_ids) ==
    sample_ids \ {i.individual_id : i \in {j \in individuals : j.project = project_guid}}

\* add_variants_dataset_via_command, lines 36-130, for the request handle
\* builds (lines 162-165: both required fields, datasetType "VARIANTS"):
\* the status of the response it returns
AddVariantsStatus(project_guid, index) ==
    IF ~EsIndexes[index].valid THEN 400                                \* 52-53, 60-61
    ELSE IF EsIndexes[index].sample_ids = {} THEN 400                  \* 54-56, 60-61
    ELSE IF EsUnmatched(project_guid, EsIndexes[index].sample_ids) # {}
    THEN 400                                                           \* 76-77
    ELSE 200                                                           \* 130

\* what a step of upload_es_index leaves alone
EsUnchanged ==
    UNCHANGED <<ed_vars, store_vars, arg_vars, local_vars, handle_vars,
                first_run, conc_vars, igv_vars, bams_vars>>

\* lines 155-165: the options, the user, the request
EsStart ==
    /\ es_pc = "idle"
    /\ \E project_guid \in ProjectGuids, index \in DOMAIN EsIndexes,
          user \in EsUsers :
          /\ es_options' = [project |-> project_guid, index |-> index,
                            user |-> user]
          /\ es_pc' = IF user = "1" THEN "add" ELSE "raised"            \* 160
    /\ UNCHANGED <<es_response, es_activated, es_cache_reset,
                   es_saved_variants_updated, es_printed>>
    /\ EsUnchanged

\* line 168: the call of add_variants_dataset_via_command.  The response it
\* returns is not assigned and not looked at; an exception (lines 38-39 for
\* a project that does not exist) goes to lines 170-171.
EsAddVariants ==
    /\ es_pc = "add"
    /\ IF es_options.project \notin Projects
       THEN /\ es_printed' = es_printed \cup {"exception"}              \* 170-171
            /\ es_pc' = "done"
            /\ UNCHANGED <<es_response, es_activated>>
       ELSE LET status == AddVariantsStatus(es_options.project, es_options.index)
            IN /\ es_response' = status
               /\ es_activated' = IF status = 200
                                  THEN EsIndexes[es_options.index].sample_ids
                                  ELSE es_activated
               /\ es_pc' = "update"
               /\ UNCHANGED es_printed
    /\ UNCHANGED <<es_options, es_cache_reset, es_saved_variants_updated>>
    /\ EsUnchanged

\* line 169: update_saved_variant_json_via_command, lines 133-144; an
\* exception of update_project_saved_variant_json is logged at lines 140-143
EsUpdateSavedVariants ==
    /\ es_pc = "update"
    /\ es_cache_reset' = TRUE                                           \* 136
    /\ es_saved_variants_updated' = TRUE                                \* 138
    /\ es_pc' = "done"
    /\ UNCHANGED <<es_options, es_response, es_activated, es_printed>>
    /\ EsUnchanged

EsInit ==
    /\ source = <<>>
    /\ target = <<>>
    /\ ed_pc = "idle"
    /\ ed_result = None
    /\ individuals \in AddVcfSeedIndividuals
    /\ samples = {}
    /\ families = SeedFamilies(individuals)
    /\ datasets = {}
    /\ links = {}
    /\ linked_by = {}
    /\ invocations = 0
    /\ MatchIdle
    /\ HandleIdle
    /\ CmdIdle

EsNext ==
    \/ EsStart
    \/ EsAddVariants
    \/ EsUpdateSavedVariants

SpecUploadEsIndex == EsInit /\ [][EsNext]_vars

\* add_variants_dataset_via_command has rejected the request
EsRejected == es_response = 400

\* C27: when add_variants_dataset_via_command rejects the request with a
\* 400 response, the failure is surfaced and the command takes no further
\* state-changing step: reset_cached_search_results and
\* update_project_saved_variant_json are not executed.
C27_RejectionStopsTheCommand ==
    EsRejected =>
        /\ ~es_cache_reset
        /\ ~es_saved_variants_updated
        /\ es_pc = "done" => es_printed # {}

\* (the two halves of C27 apart)
RejectionSkipsSavedVariantUpdate ==
    EsRejected => (~es_cache_reset /\ ~es_saved_variants_updated)

RejectionIsSurfaced ==
    (EsRejected /\ es_pc = "done") => es_printed # {}

\* (what does hold: an exception of add_variants_dataset_via_command, as
\* opposed to a 400 response, is printed and ends the command)
ExceptionStopsTheCommand ==
    es_printed # {} => (~es_cache_reset /\ ~es_saved_variants_updated)

-----------------------------------------------------------------------------
(* upload_bams_file.py: process_alignment_records_via_command, lines 13-22, *)
(* and Command.handle, lines 32-108, for --project P1 and a user that may  *)
(* see the project                                                         *)

\* most rows in a manifest
MaxManifestRows == 2

\* most invocations in a row
MaxUploadRuns == 2

\* the rows parse_file may yield: the individual id, the file path, and
\* possibly a sample id; rows of one and of four columns and an empty row
ManifestRows ==
    { <<S1, "gs://bams/here.bam">>,
      <<S1, "gs://bams/here.cram">>,
      <<S1, "gs://bams/also.bam", "sid">>,
      <<S2, "gs://bams/here.bam">>,
      <<S9, "gs://bams/here.bam">>,
      <<S1, "gs://bams/gone.bam">>,
      <<S1, "gs://bams/here.txt">>,
      <<S1>>,
      <<S1, "gs://bams/here.bam", "sid", "extra">>,
      <<>> }

\* the manifests of at most n rows
RECURSIVE ManifestsUpTo(_)
ManifestsUpTo(n) ==
    IF n = 0 THEN {<<>>}
    ELSE LET shorter == ManifestsUpTo(n - 1)
         IN shorter \cup {Append(m, row) : m \in shorter, row \in ManifestRows}

\* the project of --project
UploadProject == "P1"

\* next((st for suffix, st in SAMPLE_TYPE_MAP if file_path.endswith(suffix)),
\* None), lines 92-93: .bam and .cram files are alignments, .txt is no
\* extension of the map
SampleTypeOfPath(file_path) ==
    IF file_path \in {"gs://bams/here.bam", "gs://bams/also.bam",
                      "gs://bams/gone.bam", "gs://bams/here.cram"}
    THEN "alignment"
    ELSE None

\* line 14: the first row that has not 2 or 3 columns, <<"none">> for none
InvalidRow(rows) ==
    LET bad == {k \in 1..Len(rows) : ~(2 <= Len(rows[k]) /\ Len(rows[k]) <= 3)}
    IN IF bad = {} THEN <<"none">>
       ELSE rows[CHOOSE k \in bad : \A j \in bad : k <= j]

\* process_alignment_records_via_command, lines 13-22: the exception it
\* raises, if any.  `if invalid_row:` is false of a row without columns, and
\* row[0] of such a row raises IndexError at line 20.
ProcessRaises(rows) ==
    IF InvalidRow(rows) # <<"none">> /\ InvalidRow(rows) # <<>>
    THEN "ValueError"                                                   \* 15-17
    ELSE IF \E k \in 1..Len(rows) : rows[k] = <<>>
    THEN "IndexError"                                                   \* 20
    ELSE None

\* individual_dataset_mapping.keys(), lines 18-22
ManifestIndividualIds(rows) == {rows[k][1] : k \in 1..Len(rows)}

\* lines 51-52: Individual.objects.filter(family__project=project,
\* individual_id__in=individual_dataset_mapping.keys())
matched_individuals(rows) ==
    {i \in individuals : /\ i.project = UploadProject
                         /\ i.individual_id \in ManifestIndividualIds(rows)}

\* (mutation of unmatched_individuals: no id is reported)
unmatched_individuals_none(rows) == {}

\* lines 54-55
unmatched_individuals(rows) ==
    ManifestIndividualIds(rows)
        \ {i.individual_id : i \in matched_individuals(rows)}

\* lines 60-63: the file paths of the IgvSamples of the matched individual
\* with this individual_id
existing_sample_files(rows, individual_id) ==
    {s.file_path : s \in {t \in igv_samples :
        \E i \in matched_individuals(rows) :
            i.guid = t.individual /\ i.individual_id = individual_id}}

\* lines 68-73: the (individual id, file path) pairs of the manifest whose
\* file path an IgvSample of the individual holds already
unchanged_rows(rows) ==
    {<<rows[k][1], rows[k][2]>> :
        k \in {j \in 1..Len(rows) :
                  rows[j][2] \in existing_sample_files(rows, rows[j][1])}}

\* lines 78-83: the rows of the matched individuals that are not unchanged,
\* for each individual in the order of the manifest.  (The individuals come
\* in the order of the query; the records of different individuals touch
\* different IgvSamples.)
all_updates(rows) ==
    LET Changed(row) ==
            /\ row[1] \in {i.individual_id : i \in matched_individuals(rows)}
            /\ <<row[1], row[2]>> \notin unchanged_rows(rows)
    IN SelectSeq(rows, Changed)

\* get_or_create_model_from_json(IgvSample, create_json={'individual',
\* 'sample_type'}, update_json={'file_path', 'sample_id'}), lines 103-104:
\* the IgvSample of the individual and sample type is created if there is
\* none, and file_path and sample_id are set on it; the table afterwards and
\* what was written, "none" when the row already held both values
GetOrCreateIgvSample(table, individual_guid, type, file_path, id) ==
    LET found == {s \in table : /\ s.individual = individual_guid
                                /\ s.sample_type = type}
        row == IgvSample(individual_guid, type, file_path, id)
    IN IF found = {}
       THEN [table |-> table \cup {row}, write |-> "create"]
       ELSE IF row \in found
       THEN [table |-> table, write |-> "none"]
       ELSE [table |-> (table \ found) \cup {row}, write |-> "update"]

\* lines 87-105: the loop over all_updates, from record k on; acc holds the
\* table, the writes and the messages printed so far
RECURSIVE ProcessRecords(_, _, _)
ProcessRecords(acc, updates, k) ==
    IF k > Len(updates) THEN acc
    ELSE LET record == updates[k]
             individual_guid ==
                 (CHOOSE i \in individuals :
                     i.project = UploadProject /\ i.individual_id = record[1]).guid
             file_path == record[2]
             sample_id == IF Len(record) > 2 THEN record[3] ELSE None
             type == SampleTypeOfPath(file_path)
             got == GetOrCreateIgvSample(acc.table, individual_guid, type,
                                         file_path, sample_id)
             after ==
                 IF type = None                                         \* 95-98
                 THEN [acc EXCEPT !.printed = @ \cup {"Invalid file extension"}]
                 ELSE IF file_path \notin ExistingFiles                 \* 99-101
                 THEN [acc EXCEPT !.printed = @ \cup {"Error accessing"}]
                 ELSE [table |-> got.table,
                       writes |-> IF got.write = "none" THEN acc.writes
                                  ELSE acc.writes \cup
                                       {[n |-> k, write |-> got.write,
                                         individual |-> individual_guid,
                                         file_path |-> file_path]},
                       printed |-> acc.printed \cup {"sample, created"}]
         IN ProcessRecords(after, updates, k + 1)

\* what an invocation of upload_bams_file leaves alone
UploadUnchanged ==
    UNCHANGED <<ed_vars, store_vars, arg_vars, local_vars, handle_vars,
                first_run, conc_vars, check_vars, es_vars, ub_manifest>>

\* Command.handle, lines 32-108: one invocation on the manifest.  Every
\* exception raised inside the try of line 41 is printed at lines 107-108.
UploadBams ==
    /\ ub_runs < MaxUploadRuns
    /\ ub_at_start' = igv_samples
    /\ ub_runs' = ub_runs + 1
    /\ LET rows == ub_manifest
       IN IF ProcessRaises(rows) # None                                 \* 47-48
          THEN /\ ub_printed' = {ProcessRaises(rows)}
               /\ ub_writes' = {}
               /\ UNCHANGED igv_samples
          ELSE IF unmatched_individuals(rows) # {}                      \* 56-58
          THEN /\ ub_printed' = {"The following Individual IDs do not exist"}
               /\ ub_writes' = {}
               /\ UNCHANGED igv_samples
          ELSE LET start == [table |-> igv_samples, writes |-> {},
                             printed |-> IF unchanged_rows(rows) # {}
                                         THEN {"No change detected"}    \* 75-76
                                         ELSE {}]
                   end == ProcessRecords(start, all_updates(rows), 1)
               IN /\ igv_samples' = end.table
                  /\ ub_writes' = end.writes
                  /\ ub_printed' = end.printed
    /\ UploadUnchanged

UploadInit ==
    /\ source = <<>>
    /\ target = <<>>
    /\ ed_pc = "idle"
    /\ ed_result = None
    /\ individuals = CheckIndividuals
    /\ samples = {}
    /\ families = SeedFamilies(individuals)
    /\ datasets = {}
    /\ links = {}
    /\ linked_by = {}
    /\ invocations = 0
    /\ MatchIdle
    /\ HandleIdle
    /\ first_run = NoRun
    /\ ConcIdle
    /\ EsIdle
    /\ igv_samples \in { {},
                         {IgvSample("I1", "alignment", "gs://bams/here.bam", None)},
                         {IgvSample("I4", "alignment", "gs://bams/here.cram", None)} }
    /\ cb_pc = "idle"
    /\ cb_args = {}
    /\ cb_dry_run = FALSE
    /\ cb_todo = {}
    /\ cb_missing = [p \in Projects |-> 0]
    /\ cb_at_start = {}
    /\ ub_manifest \in ManifestsUpTo(MaxManifestRows)
    /\ ub_runs = 0
    /\ ub_writes = {}
    /\ ub_printed = {}
    /\ ub_at_start = {}

UploadNext == UploadBams

SpecUploadBams == UploadInit /\ [][UploadNext]_vars

\* a row of the manifest has fewer than 2 or more than 3 columns
SomeRowMalformed ==
    \E k \in 1..Len(ub_manifest) :
        Len(ub_manifest[k]) < 2 \/ Len(ub_manifest[k]) > 3

\* an individual id named in the manifest is the id of no individual of the
\* project
SomeIndividualUnknown ==
    \E k \in 1..Len(ub_manifest) :
        /\ Len(ub_manifest[k]) >= 1
        /\ ~\E i \in individuals : /\ i.project = UploadProject
                                   /\ i.individual_id = ub_manifest[k][1]

\* C29: upload_bams_file validates before it writes: when a row of the
\* manifest has fewer than 2 or more than 3 columns, or an individual id of
\* the manifest does not exist in the project, the invocation aborts with an
\* error and no IgvSample is created or updated, the rows of existing
\* individuals included.
C29_ValidatesBeforeWriting ==
    (ub_runs >= 1 /\ (SomeRowMalformed \/ SomeIndividualUnknown)) =>
        /\ ub_writes = {}
        /\ igv_samples = ub_at_start
        /\ ub_printed \cap {"ValueError", "IndexError",
                            "The following Individual IDs do not exist"} # {}

\* C29 witness: a manifest with a row for an individual of the project and a
\* row for an id the project does not have was uploaded to an empty table,
\* and the table is still empty
C29_Witness ==
    /\ ub_runs = 1
    /\ ub_manifest = << <<S1, "gs://bams/here.bam">>, <<S9, "gs://bams/here.bam">> >>
    /\ ub_at_start = {}
    /\ igv_samples = {}
    /\ ub_printed = {"The following Individual IDs do not exist"}

\* the manifest passes the validation of lines 14-17 and 54-58
ManifestValid == ~SomeRowMalformed /\ ~SomeIndividualUnknown

\* C30: upload_bams_file is idempotent: a second invocation in a row with the
\* same manifest creates and updates no IgvSample, for every valid manifest,
\* one that lists several file paths of one sample type for an individual
\* included.
C30_SecondUploadWritesNothing ==
    (ub_runs = 2 /\ ManifestValid) =>
        (ub_writes = {} /\ igv_samples = ub_at_start)

\* the manifest lists two different file paths of one sample type for one
\* individual, both of files that exist
SeveralPathsForOneSample ==
    \E j, k \in 1..Len(ub_manifest) :
        /\ ub_manifest[j][1] = ub_manifest[k][1]
        /\ ub_manifest[j][2] # ub_manifest[k][2]
        /\ SampleTypeOfPath(ub_manifest[j][2]) = SampleTypeOfPath(ub_manifest[k][2])
        /\ SampleTypeOfPath(ub_manifest[j][2]) # None
        /\ {ub_manifest[j][2], ub_manifest[k][2]} \subseteq ExistingFiles

\* (the part of C30 that holds: manifests that list at most one existing
\* file path per individual and sample type)
SecondUploadWritesNothingForOnePath ==
    (ub_runs = 2 /\ ManifestValid /\ ~SeveralPathsForOneSample) =>
        (ub_writes = {} /\ igv_samples = ub_at_start)

=============================================================================
